---- MODULE Spec2Model ----
(***************************************************************************)
(* Model of the external-documentation access gate of sosumi.ai:           *)
(* src/src/lib/external/policy.ts (host policy, robots.txt resolver with   *)
(* its cache and in-flight map), src/src/lib/external/fetch.ts (document   *)
(* fetcher) and the /external/* route of src/src/index.ts; and of the       *)
(* content renderer src/src/lib/reference/render.ts, whose recursive walks *)
(* run as a step machine with an explicit stack of activations.            *)
(*                                                                         *)
(* Strings are sequences of one-character strings, so that the string      *)
(* operations of the code (endsWith, split, trim, toLowerCase, the regular *)
(* expressions) are computed and not assumed.                              *)
(***************************************************************************)
EXTENDS Integers, Sequences, FiniteSets, TLC

NONE == "none"

\* ------------------------------------------------------------------------
\* String helpers (JavaScript String methods used by the code)
\* ------------------------------------------------------------------------

UpperChars == <<"A","B","C","D","E","F","G","H","I","J","K","L","M",
                "N","O","P","Q","R","S","T","U","V","W","X","Y","Z">>

LowerChars == <<"a","b","c","d","e","f","g","h","i","j","k","l","m",
                "n","o","p","q","r","s","t","u","v","w","x","y","z">>

Digits == {"0","1","2","3","4","5","6","7","8","9"}

LowerChar(c) ==
    IF \E i \in 1..26 : UpperChars[i] = c
    THEN LowerChars[CHOOSE i \in 1..26 : UpperChars[i] = c]
    ELSE c

\* The characters a..b of s (1-based, inclusive), clipped to s.
slice(s, a, b) ==
    LET lo == IF a < 1 THEN 1 ELSE a
        hi == IF b > Len(s) THEN Len(s) ELSE b
    IN  IF lo > hi THEN <<>> ELSE SubSeq(s, lo, hi)

toLowerCase(s) == [i \in 1..Len(s) |-> LowerChar(s[i])]

startsWith(s, pre) ==
    /\ Len(pre) <= Len(s)
    /\ slice(s, 1, Len(pre)) = pre

endsWith(s, suf) ==
    /\ Len(suf) <= Len(s)
    /\ slice(s, Len(s) - Len(suf) + 1, Len(s)) = suf

\* String.prototype.indexOf for a single character; 0 stands for -1.
indexOf(s, c) ==
    IF \E i \in 1..Len(s) : s[i] = c
    THEN CHOOSE i \in 1..Len(s) : s[i] = c /\ \A j \in 1..(i - 1) : s[j] # c
    ELSE 0

WhiteSpace == {" ", "\t", "\r", "\n"}

RECURSIVE trimStart(_)
trimStart(s) ==
    IF s # <<>> /\ Head(s) \in WhiteSpace THEN trimStart(Tail(s)) ELSE s

RECURSIVE trimEnd(_)
trimEnd(s) ==
    IF s # <<>> /\ s[Len(s)] \in WhiteSpace
    THEN trimEnd(slice(s, 1, Len(s) - 1))
    ELSE s

trim(s) == trimEnd(trimStart(s))

\* s.split(sep) for a set of one-character separators: a sequence of strings.
RECURSIVE splitOn(_, _)
splitOn(s, seps) ==
    IF \E i \in 1..Len(s) : s[i] \in seps
    THEN LET i == CHOOSE k \in 1..Len(s) :
                      s[k] \in seps /\ \A j \in 1..(k - 1) : s[j] \notin seps
         IN  <<slice(s, 1, i - 1)>> \o splitOn(slice(s, i + 1, Len(s)), seps)
    ELSE <<s>>

\* rawText.split(/\r?\n/): split on "\n", dropping a "\r" right before it.
dropCarriageReturns(parts) ==
    [i \in 1..Len(parts) |->
        IF i < Len(parts) /\ parts[i] # <<>> /\ parts[i][Len(parts[i])] = "\r"
        THEN slice(parts[i], 1, Len(parts[i]) - 1)
        ELSE parts[i]]

splitLines(s) == dropCarriageReturns(splitOn(s, {"\n"}))

RECURSIVE parseInt(_)
parseInt(s) ==
    IF s = <<>> THEN 0
    ELSE LET d == CHOOSE n \in 0..9 : ToString(n) = s[Len(s)]
         IN  10 * parseInt(slice(s, 1, Len(s) - 1)) + d

SeqToSet(s) == {s[i] : i \in 1..Len(s)}

\* ------------------------------------------------------------------------
\* Host policy (policy.ts: parseHostList, isHostListed, isLocalOrPrivateHost,
\* assertHostPolicy)
\* ------------------------------------------------------------------------

LOCAL_HOSTNAMES ==
    { <<"l","o","c","a","l","h","o","s","t">>,
      <<"1","2","7",".","0",".","0",".","1">>,
      <<":",":","1">> }

\* An unset variable and the empty string are both falsy: both are <<>> here.
\* .map((value) => value.trim().toLowerCase()).filter(Boolean), as a set.
parseHostList(rawList) ==
    IF rawList = <<>> THEN {}
    ELSE LET parts == splitOn(rawList, {"\n", ","})
         IN  {toLowerCase(trim(parts[i])) : i \in 1..Len(parts)} \ {<<>>}

\* A match on the end of the host name, whatever comes before it.
isHostListedBySuffix(hostname, list) ==
    \E candidate \in list : endsWith(hostname, candidate)

isHostListed(hostname, list) ==
    \/ hostname \in list
    \/ \E candidate \in list :
          IF startsWith(candidate, <<".">>)
          THEN endsWith(hostname, candidate)
          ELSE hostname = candidate \/ endsWith(hostname, <<".">> \o candidate)

\* isPrivateIPv4 on the octets hostname.split(".").
isPrivateOctets(octets) ==
    LET isOctet(o) == Len(o) >= 1 /\ Len(o) <= 3 /\ \A i \in 1..Len(o) : o[i] \in Digits
    IN  /\ Len(octets) = 4
        /\ \A i \in 1..4 : isOctet(octets[i])
        /\ \A i \in 1..4 : parseInt(octets[i]) <= 255
        /\ LET a == parseInt(octets[1])
               b == parseInt(octets[2])
           IN  \/ a = 10
               \/ a = 127
               \/ a = 0
               \/ (a = 169 /\ b = 254)
               \/ (a = 172 /\ b >= 16 /\ b <= 31)
               \/ (a = 192 /\ b = 168)

isPrivateIPv4(hostname) == isPrivateOctets(splitOn(hostname, {"."}))

\* hostname.toLowerCase().replace(/^\[|\]$/g, "")
stripBrackets(s) ==
    LET s1 == IF s # <<>> /\ Head(s) = "[" THEN Tail(s) ELSE s
    IN  IF s1 # <<>> /\ s1[Len(s1)] = "]" THEN slice(s1, 1, Len(s1) - 1) ELSE s1

isPrivateIPv6(hostname) ==
    \E normalized \in {stripBrackets(toLowerCase(hostname))} :
        \/ normalized = <<":",":","1">>
        \/ startsWith(normalized, <<"f","c">>)
        \/ startsWith(normalized, <<"f","d">>)
        \/ startsWith(normalized, <<"f","e","8">>)
        \/ startsWith(normalized, <<"f","e","9">>)
        \/ startsWith(normalized, <<"f","e","a">>)
        \/ startsWith(normalized, <<"f","e","b">>)

\* A classification that knows the names of LOCAL_HOSTNAMES only.
isListedLocalName(hostname) == hostname \in LOCAL_HOSTNAMES

isLocalOrPrivateHost(hostname) ==
    \/ hostname \in LOCAL_HOSTNAMES
    \/ endsWith(hostname, <<".","l","o","c","a","l">>)
    \/ isPrivateIPv4(hostname)
    \/ isPrivateIPv6(hostname)

\* A host policy that looks at the allowlist first: a listed host is allowed.
allowlistBeforeBlocklist(hostname, allowlist, blocklist) ==
    IF isHostListed(hostname, allowlist) THEN "allowed"
    ELSE IF isHostListed(hostname, blocklist) THEN "HostBlocked"
    ELSE IF allowlist # {} THEN "HostNotAllowlisted"
    ELSE IF isLocalOrPrivateHost(hostname) THEN "PrivateHostBlocked"
    ELSE "allowed"

\* A host policy that looks for a private host before it enforces the allowlist.
privateBeforeAllowlist(hostname, allowlist, blocklist) ==
    IF isHostListed(hostname, blocklist) THEN "HostBlocked"
    ELSE IF isLocalOrPrivateHost(hostname) /\ ~isHostListed(hostname, allowlist)
         THEN "PrivateHostBlocked"
    ELSE IF allowlist # {} /\ ~isHostListed(hostname, allowlist) THEN "HostNotAllowlisted"
    ELSE "allowed"

\* The checks of assertHostPolicy on the lower-cased hostname and the two lists.
checkHostPolicy(hostname, allowlist, blocklist) ==
    IF isHostListed(hostname, blocklist) THEN "HostBlocked"
    ELSE IF allowlist # {} /\ ~isHostListed(hostname, allowlist) THEN "HostNotAllowlisted"
    ELSE IF isLocalOrPrivateHost(hostname) /\ ~isHostListed(hostname, allowlist)
         THEN "PrivateHostBlocked"
    ELSE "allowed"

\* The outcome of assertHostPolicy: "allowed" or the error it throws.
\* env is a record [allow |-> rawList, block |-> rawList].
assertHostPolicy(targetUrl, env) ==
    checkHostPolicy(toLowerCase(targetUrl.hostname),
                    parseHostList(env.allow), parseHostList(env.block))

\* ------------------------------------------------------------------------
\* robots.txt rule evaluation (policy.ts: parseRobotsGroups, userAgentMatches,
\* patternMatchesPath, normalizedPatternLength, evaluateRobotsPolicy)
\* ------------------------------------------------------------------------

\* "sosumi-ai/1.0 (+https://sosumi.ai/#bot)"
EXTERNAL_DOC_USER_AGENT ==
    <<"s","o","s","u","m","i","-","a","i","/","1",".","0"," ","(","+",
      "h","t","t","p","s",":","/","/","s","o","s","u","m","i",".","a","i",
      "/","#","b","o","t",")">>


includes(s, sub) ==
    \E i \in 1..(Len(s) - Len(sub) + 1) : slice(s, i, i + Len(sub) - 1) = sub

stripComments(line) ==
    LET hashIndex == indexOf(line, "#")
    IN  IF hashIndex = 0 THEN line ELSE slice(line, 1, hashIndex - 1)

EmptyGroup == [agents |-> <<>>, rules |-> <<>>]

\* The directive key: value of a line, applied to st = [groups, cur].
applyDirective(st, key, value) ==
    IF key = <<"u","s","e","r","-","a","g","e","n","t">>
    THEN LET flush == st.cur.agents # <<>> /\ st.cur.rules # <<>>
             base == IF flush THEN EmptyGroup ELSE st.cur
         IN  [groups |-> IF flush THEN Append(st.groups, st.cur) ELSE st.groups,
              cur |-> [base EXCEPT !.agents = Append(@, toLowerCase(value))]]
    ELSE IF key = <<"a","l","l","o","w">> \/ key = <<"d","i","s","a","l","l","o","w">>
    THEN IF st.cur.agents = <<>> THEN st
         ELSE [st EXCEPT !.cur.rules =
                  Append(@, [kind |-> IF key = <<"a","l","l","o","w">> THEN "allow" ELSE "disallow",
                             pattern |-> value])]
    ELSE st

\* A line without its comment, trimmed: skipped if empty or without ":".
parseDirective(st, line) ==
    IF line = <<>> \/ indexOf(line, ":") = 0 THEN st
    ELSE applyDirective(st,
                        toLowerCase(trim(slice(line, 1, indexOf(line, ":") - 1))),
                        trim(slice(line, indexOf(line, ":") + 1, Len(line))))

\* One iteration of the loop of parseRobotsGroups over st = [groups, cur].
parseRobotsLine(st, rawLine) == parseDirective(st, trim(stripComments(rawLine)))

RECURSIVE parseRobotsLines(_, _)
parseRobotsLines(st, lines) ==
    IF lines = <<>> THEN st
    ELSE parseRobotsLines(parseRobotsLine(st, Head(lines)), Tail(lines))

\* The end of parseRobotsGroups: the last group is pushed if it has agents.
closeGroups(st) ==
    IF st.cur.agents # <<>> THEN Append(st.groups, st.cur) ELSE st.groups

parseRobotsGroups(robotsText) ==
    closeGroups(parseRobotsLines([groups |-> <<>>, cur |-> EmptyGroup],
                                 splitLines(robotsText)))

userAgentMatches(ruleUserAgent, actualUserAgent) ==
    IF ruleUserAgent = <<>> THEN FALSE
    ELSE IF ruleUserAgent = <<"*">> THEN TRUE
    ELSE includes(toLowerCase(actualUserAgent), toLowerCase(ruleUserAgent))

\* new RegExp("^" + body with * as .* + ("$" if anchored)).test(path)
RECURSIVE regexTest(_, _, _)
regexTest(body, path, anchored) ==
    IF body = <<>> THEN (~anchored \/ path = <<>>)
    ELSE IF Head(body) = "*"
    THEN \E k \in 0..Len(path) :
             regexTest(Tail(body), slice(path, k + 1, Len(path)), anchored)
    ELSE /\ path # <<>>
         /\ Head(path) = Head(body)
         /\ regexTest(Tail(body), Tail(path), anchored)

patternMatchesPath(pattern, path) ==
    IF Len(pattern) = 0 THEN TRUE
    ELSE LET endsWithDollar == endsWith(pattern, <<"$">>)
             patternBody == IF endsWithDollar
                            THEN slice(pattern, 1, Len(pattern) - 1)
                            ELSE pattern
         IN  regexTest(patternBody, path, endsWithDollar)

\* A measure under which all patterns are equally long.
uniformPatternLength(pattern) == 0

normalizedPatternLength(pattern) ==
    Cardinality({i \in 1..Len(pattern) : pattern[i] # "$"})

RECURSIVE flattenRules(_)
flattenRules(groups) ==
    IF groups = <<>> THEN <<>> ELSE Head(groups).rules \o flattenRules(Tail(groups))

\* A loop in which the last matching rule wins, whatever its length.
RECURSIVE pickLastMatchingRule(_, _, _)
pickLastMatchingRule(winningRule, rules, path) ==
    IF rules = <<>> THEN winningRule
    ELSE pickLastMatchingRule(
             IF patternMatchesPath(Head(rules).pattern, path)
             THEN [kind |-> Head(rules).kind,
                   length |-> normalizedPatternLength(Head(rules).pattern)]
             ELSE winningRule,
             Tail(rules), path)

\* The loop of evaluateRobotsPolicy over the rules of the matching groups.
RECURSIVE pickWinningRule(_, _, _)
pickWinningRule(winningRule, rules, path) ==
    IF rules = <<>> THEN winningRule
    ELSE LET rule == Head(rules)
             current == [kind |-> rule.kind,
                         length |-> normalizedPatternLength(rule.pattern)]
             next == IF ~patternMatchesPath(rule.pattern, path) THEN winningRule
                     ELSE IF winningRule.kind = NONE \/ current.length > winningRule.length
                     THEN current
                     ELSE IF current.length = winningRule.length /\ current.kind = "allow"
                     THEN current
                     ELSE winningRule
         IN  pickWinningRule(next, Tail(rules), path)

\* The end of evaluateRobotsPolicy: no winning rule allows.
ruleAllows(winningRule) ==
    IF winningRule.kind = NONE THEN TRUE ELSE winningRule.kind = "allow"

evaluateMatchingGroups(matchingGroups, path) ==
    IF matchingGroups = <<>> THEN TRUE
    ELSE ruleAllows(pickWinningRule([kind |-> NONE, length |-> 0],
                                    flattenRules(matchingGroups), path))

evaluateRobotsPolicy(robotsText, path, userAgent) ==
    evaluateMatchingGroups(
        SelectSeq(parseRobotsGroups(robotsText),
                  LAMBDA group : \E i \in 1..Len(group.agents) :
                                     userAgentMatches(group.agents[i], userAgent)),
        path)

\* policy is a RobotsPolicyResult: [kind, robotsText].
isAllowedByRobotsTxt(policy, targetUrl) ==
    IF policy.kind = "allow-all" THEN TRUE
    ELSE IF policy.kind = "deny-all" THEN FALSE
    ELSE evaluateRobotsPolicy(policy.robotsText,
                              targetUrl.pathname \o targetUrl.search,
                              EXTERNAL_DOC_USER_AGENT)

\* ------------------------------------------------------------------------
\* URL validation (policy.ts: hasControlOrWhitespace,
\* validateExternalDocumentationUrl) over a small WHATWG-style parser
\* ------------------------------------------------------------------------

\* Characters with code <= 0x20 or = 0x7f; "NUL" and "DEL" stand for 0x00, 0x7f.
ControlOrWhitespaceChars == {"NUL", "\t", "\n", "\r", " ", "DEL"}

hasControlOrWhitespace(value) ==
    \E index \in 1..Len(value) : value[index] \in ControlOrWhitespaceChars

lastIndexOf(s, c) ==
    IF \E i \in 1..Len(s) : s[i] = c
    THEN CHOOSE i \in 1..Len(s) : s[i] = c /\ \A j \in (i + 1)..Len(s) : s[j] # c
    ELSE 0

firstIndexIn(s, cs) ==
    IF \E i \in 1..Len(s) : s[i] \in cs
    THEN CHOOSE i \in 1..Len(s) : s[i] \in cs /\ \A j \in 1..(i - 1) : s[j] \notin cs
    ELSE Len(s) + 1

InvalidUrl ==
    [ok |-> FALSE, protocol |-> <<>>, username |-> <<>>, password |-> <<>>,
     hostname |-> <<>>, port |-> <<>>, pathname |-> <<>>, search |-> <<>>,
     hash |-> <<>>]

\* The part of s before index i, from index i, and after index i; i = 0
\* stands for "not found".
before(s, i) == IF i = 0 THEN s ELSE slice(s, 1, i - 1)

from(s, i) == IF i = 0 THEN <<>> ELSE slice(s, i, Len(s))

after(s, i) == IF i = 0 THEN <<>> ELSE slice(s, i + 1, Len(s))

\* Where the search for the port's ":" starts: after a bracketed IPv6 literal.
urlBracket(hostport) ==
    IF startsWith(hostport, <<"[">>) THEN indexOf(hostport, "]") ELSE 0

urlPortColonFrom(hostport, bracket) ==
    IF indexOf(slice(hostport, bracket + 1, Len(hostport)), ":") = 0 THEN 0
    ELSE bracket + indexOf(slice(hostport, bracket + 1, Len(hostport)), ":")

urlPortColon(hostport) == urlPortColonFrom(hostport, urlBracket(hostport))

\* A lone "?" or "#" gives an empty search or hash; an empty path is "/".
dropLone(part) == IF Len(part) <= 1 THEN <<>> ELSE part

orRoot(path) == IF path = <<>> THEN <<"/">> ELSE path

\* The record for [user[:password]], host[:port], [/path][?query] and
\* [#fragment].
urlRecord(protocol, userinfo, hostport, beforeHash, fragment) ==
    IF before(hostport, urlPortColon(hostport)) = <<>> THEN InvalidUrl
    ELSE [ok |-> TRUE,
          protocol |-> protocol,
          username |-> before(userinfo, indexOf(userinfo, ":")),
          password |-> after(userinfo, indexOf(userinfo, ":")),
          hostname |-> toLowerCase(before(hostport, urlPortColon(hostport))),
          port |-> after(hostport, urlPortColon(hostport)),
          pathname |-> orRoot(before(beforeHash, indexOf(beforeHash, "?"))),
          search |-> dropLone(from(beforeHash, indexOf(beforeHash, "?"))),
          hash |-> dropLone(fragment)]

urlFromParts(protocol, authority, rest) ==
    urlRecord(protocol,
              slice(authority, 1, lastIndexOf(authority, "@") - 1),
              slice(authority, lastIndexOf(authority, "@") + 1, Len(authority)),
              before(rest, indexOf(rest, "#")),
              from(rest, indexOf(rest, "#")))

urlAfterScheme(protocol, afterScheme) ==
    urlFromParts(protocol,
                 slice(afterScheme, 1, firstIndexIn(afterScheme, {"/", "?", "#"}) - 1),
                 slice(afterScheme, firstIndexIn(afterScheme, {"/", "?", "#"}),
                       Len(afterScheme)))

urlFromScheme(rawUrl, schemeEnd) ==
    IF schemeEnd <= 1 \/ slice(rawUrl, schemeEnd + 1, schemeEnd + 2) # <<"/","/">>
    THEN InvalidUrl
    ELSE urlAfterScheme(toLowerCase(slice(rawUrl, 1, schemeEnd)),
                        slice(rawUrl, schemeEnd + 3, Len(rawUrl)))

\* new URL(rawUrl) for scheme://[user[:password]@]host[:port][/path][?query][#fragment]
parseURL(rawUrl) == urlFromScheme(rawUrl, indexOf(rawUrl, ":"))

Https == <<"h","t","t","p","s",":">>

\* URL.origin: scheme, host and (non-default) port.
originOf(url) ==
    url.protocol \o <<"/","/">> \o url.hostname
        \o (IF url.port = <<>> \/ url.port = <<"4","4","3">> THEN <<>> ELSE <<":">> \o url.port)

\* URL.toString()
toString(url) ==
    url.protocol \o <<"/","/">>
        \o (IF url.username = <<>> /\ url.password = <<>> THEN <<>>
            ELSE url.username
                   \o (IF url.password = <<>> THEN <<>> ELSE <<":">> \o url.password)
                   \o <<"@">>)
        \o url.hostname
        \o (IF url.port = <<>> \/ url.port = <<"4","4","3">> THEN <<>> ELSE <<":">> \o url.port)
        \o url.pathname \o url.search \o url.hash

\* A validation that accepts a fragment: scheme and credentials only.
validateSchemeAndCredentials(parsedUrl) ==
    IF ~parsedUrl.ok THEN "InvalidURL"
    ELSE IF parsedUrl.protocol # Https THEN "UnsupportedScheme"
    ELSE IF parsedUrl.username # <<>> \/ parsedUrl.password # <<>>
         THEN "CredentialedURL"
    ELSE "ok"

\* The checks of validateExternalDocumentationUrl on the parsed URL.
validateParsedUrl(parsedUrl) ==
    IF ~parsedUrl.ok THEN "InvalidURL"
    ELSE IF parsedUrl.protocol # Https THEN "UnsupportedScheme"
    ELSE IF parsedUrl.username # <<>> \/ parsedUrl.password # <<>>
         THEN "CredentialedURL"
    ELSE IF parsedUrl.hash # <<>> THEN "FragmentNotSupported"
    ELSE "ok"

\* The error validateExternalDocumentationUrl throws, or "ok".
validateExternalDocumentationUrl(rawUrl) ==
    IF rawUrl = <<>> \/ hasControlOrWhitespace(rawUrl) THEN "InvalidURL"
    ELSE validateParsedUrl(parseURL(rawUrl))

\* ------------------------------------------------------------------------
\* Percent-decoding of the inbound path (policy.ts: decodeExternalTargetPath)
\* ------------------------------------------------------------------------

EXTERNAL_PATH_PREFIX == <<"/","e","x","t","e","r","n","a","l","/">>

HexDigits == <<"0","1","2","3","4","5","6","7","8","9","A","B","C","D","E","F",
               "a","b","c","d","e","f">>

\* The value of a hexadecimal digit, -1 for any other character.
hexValue(c) ==
    IF \E i \in 1..22 : HexDigits[i] = c
    THEN LET i == CHOOSE k \in 1..22 : HexDigits[k] = c
         IN  IF i <= 16 THEN i - 1 ELSE i - 7
    ELSE -1

\* The UTF-8 bytes of the characters the inputs are made of.
CharBytes ==
    { [char |-> "NUL", bytes |-> <<0>>],   [char |-> "\n", bytes |-> <<10>>],
      [char |-> " ", bytes |-> <<32>>],    [char |-> "%", bytes |-> <<37>>],
      [char |-> "/", bytes |-> <<47>>],    [char |-> ":", bytes |-> <<58>>],
      [char |-> "=", bytes |-> <<61>>],    [char |-> "?", bytes |-> <<63>>],
      [char |-> "a", bytes |-> <<97>>],    [char |-> "DEL", bytes |-> <<127>>],
      [char |-> "é", bytes |-> <<195, 169>>] }

\* encodeURIComponent: every character but the unreserved ones becomes the
\* %XX of its UTF-8 bytes.
percentEncode(u) ==
    LET encoded(c) ==
            IF c \in SeqToSet(LowerChars) \cup SeqToSet(UpperChars) \cup Digits
                     \cup {"-", "_", ".", "!", "~", "*", "'", "(", ")"}
            THEN <<c>>
            ELSE LET bytes == (CHOOSE e \in CharBytes : e.char = c).bytes
                     hex(b) == <<"%", HexDigits[(b \div 16) + 1], HexDigits[(b % 16) + 1]>>
                 IN  IF Len(bytes) = 1 THEN hex(bytes[1])
                     ELSE hex(bytes[1]) \o hex(bytes[2])
        RECURSIVE enc(_)
        enc(t) == IF t = <<>> THEN <<>> ELSE encoded(Head(t)) \o enc(Tail(t))
    IN  enc(u)

\* The byte of the escape %XX at index i of s, -1 if there is none.
byteAt(s, i) ==
    IF i + 2 <= Len(s) /\ s[i] = "%" /\ hexValue(s[i + 1]) >= 0 /\ hexValue(s[i + 2]) >= 0
    THEN 16 * hexValue(s[i + 1]) + hexValue(s[i + 2])
    ELSE -1

\* The number of bytes of the UTF-8 sequence that lead byte b starts, 0 for a
\* byte that starts none.
sequenceLength(b) ==
    IF b < 0 THEN 0
    ELSE IF b < 128 THEN 1
    ELSE IF b >= 194 /\ b <= 223 THEN 2
    ELSE IF b >= 224 /\ b <= 239 THEN 3
    ELSE IF b >= 240 /\ b <= 244 THEN 4
    ELSE 0

\* decodeURIComponent: [ok, value], ok FALSE where it throws URIError.
RECURSIVE decodeURIComponent(_)
decodeURIComponent(s) ==
    IF s = <<>> THEN [ok |-> TRUE, value |-> <<>>]
    ELSE IF Head(s) # "%"
    THEN LET rest == decodeURIComponent(Tail(s))
         IN  [ok |-> rest.ok, value |-> <<Head(s)>> \o rest.value]
    ELSE LET n == sequenceLength(byteAt(s, 1))
             bytes == [j \in 1..n |-> byteAt(s, 3 * j - 2)]
         IN  IF n = 0 \/ \E j \in 2..n : bytes[j] < 128 \/ bytes[j] > 191
             THEN [ok |-> FALSE, value |-> <<>>]
             ELSE LET rest == decodeURIComponent(slice(s, 3 * n + 1, Len(s)))
                  IN  [ok |-> rest.ok,
                       value |-> <<(CHOOSE e \in CharBytes : e.bytes = bytes).char>>
                                    \o rest.value]

\* A decoding that returns what decodeURIComponent gives without looking at it.
decodeUnchecked(decoded) ==
    IF ~decoded.ok THEN [outcome |-> "InvalidURL", value |-> <<>>]
    ELSE [outcome |-> "ok", value |-> decoded.value]

\* The try block of decodeExternalTargetPath, decoded being what
\* decodeURIComponent gave.
checkDecodedTarget(decoded) ==
    IF ~decoded.ok THEN [outcome |-> "InvalidURL", value |-> <<>>]
    ELSE IF decoded.value = <<>> \/ hasControlOrWhitespace(decoded.value) THEN [outcome |-> "InvalidURL", value |-> <<>>]
    ELSE [outcome |-> "ok", value |-> decoded.value]

\* [outcome, value]: the decoded target, or the error thrown.
decodeExternalTargetPath(path) ==
    IF ~startsWith(path, EXTERNAL_PATH_PREFIX) THEN [outcome |-> "InvalidURL", value |-> <<>>]
    ELSE IF Len(path) = Len(EXTERNAL_PATH_PREFIX) THEN [outcome |-> "InvalidURL", value |-> <<>>]
    ELSE checkDecodedTarget(
             decodeURIComponent(slice(path, Len(EXTERNAL_PATH_PREFIX) + 1, Len(path))))

\* ------------------------------------------------------------------------
\* Document fetcher helpers (fetch.ts)
\* ------------------------------------------------------------------------

DocumentationSegment == <<"/","d","o","c","u","m","e","n","t","a","t","i","o","n">>

DotJson == <<".","j","s","o","n">>

\* pathname.replace(/\/+$/, "")
RECURSIVE stripTrailingSlashes(_)
stripTrailingSlashes(s) ==
    IF s # <<>> /\ s[Len(s)] = "/"
    THEN stripTrailingSlashes(slice(s, 1, Len(s) - 1))
    ELSE s

\* Start index of group 2 of /^(.*?)(\/documentation(?:\/.*)?)$/, 0 for no match.
documentationIndex(normalizedPath) ==
    LET n == Len(DocumentationSegment)
        hit(i) == /\ slice(normalizedPath, i, i + n - 1) = DocumentationSegment
                  /\ (i + n - 1 = Len(normalizedPath) \/ normalizedPath[i + n] = "/")
    IN  IF \E i \in 1..Len(normalizedPath) : hit(i)
        THEN CHOOSE i \in 1..Len(normalizedPath) :
                 hit(i) /\ \A j \in 1..(i - 1) : ~hit(j)
        ELSE 0

\* match[1] for a match whose group 2 starts at index i.
basePathAt(normalizedPath, i) ==
    IF i = 0 THEN [ok |-> FALSE, base |-> <<>>]
    ELSE [ok |-> TRUE, base |-> slice(normalizedPath, 1, i - 1)]

\* [ok, base]: ok is FALSE where the code throws the 400 error.
extractExternalDocumentationBasePath(sourceUrl) ==
    basePathAt(stripTrailingSlashes(sourceUrl.pathname),
               documentationIndex(stripTrailingSlashes(sourceUrl.pathname)))

\* A suffix rule that appends ".json" in every case.
alwaysJsonSuffix(documentationPath) == documentationPath \o DotJson

withJsonSuffix(documentationPath) ==
    IF endsWith(documentationPath, DotJson)
    THEN documentationPath
    ELSE documentationPath \o DotJson

dataPath(normalizedPath, hostBasePath) ==
    hostBasePath \o <<"/","d","a","t","a">>
        \o withJsonSuffix(slice(normalizedPath, Len(hostBasePath) + 1, Len(normalizedPath)))

\* The JSON data URL as a string; only called where the base path exists.
buildExternalDocCJsonUrl(sourceUrl) ==
    originOf(sourceUrl) \o dataPath(stripTrailingSlashes(sourceUrl.pathname),
                                    extractExternalDocumentationBasePath(sourceUrl).base)

RESTRICTIVE_X_ROBOTS_TAGS ==
    << <<"n","o","n","e">>, <<"n","o","i","n","d","e","x">>,
       <<"n","o","a","i">>, <<"n","o","i","m","a","g","e","a","i">> >>

\* new Set(tokens.map(trim).filter(Boolean)) has one of the restrictive tags.
hasRestrictiveToken(parts) ==
    \E i \in 1..Len(RESTRICTIVE_X_ROBOTS_TAGS) :
        \E j \in 1..Len(parts) : trim(parts[j]) = RESTRICTIVE_X_ROBOTS_TAGS[i]

\* headerValue is <<>> where the header is absent (null) or empty.
containsRestrictiveXRobotsTag(headerValue) ==
    IF headerValue = <<>> THEN FALSE
    ELSE hasRestrictiveToken(splitOn(toLowerCase(headerValue), {","}))

\* ------------------------------------------------------------------------
\* Content renderer (reference/render.ts)
\*
\* A JSON value that may be missing is a sequence: <<>> where the property is
\* undefined, <<v>> where it has the value v. Objects are records with every
\* property the renderer reads.
\* ------------------------------------------------------------------------

\* A string property that is present and not "".
truthy(o) == o # <<>> /\ o[1] # <<>>

\* ${o} in a template literal.
interpolate(o) == IF o = <<>> THEN <<"u","n","d","e","f","i","n","e","d">> ELSE o[1]

toUpperCase(s) ==
    [i \in 1..Len(s) |->
        IF \E k \in 1..26 : LowerChars[k] = s[i]
        THEN UpperChars[CHOOSE k \in 1..26 : LowerChars[k] = s[i]]
        ELSE s[i]]

\* Array.prototype.join
RECURSIVE join(_, _)
join(strings, sep) ==
    IF strings = <<>> THEN <<>>
    ELSE IF Len(strings) = 1 THEN strings[1]
    ELSE strings[1] \o sep \o join(Tail(strings), sep)

\* s.replace(/c/g, by) for a one-character pattern c.
RECURSIVE replaceChar(_, _, _)
replaceChar(s, c, by) ==
    IF s = <<>> THEN <<>>
    ELSE (IF Head(s) = c THEN by ELSE <<Head(s)>>) \o replaceChar(Tail(s), c, by)

\* String.prototype.indexOf for a string; 0 stands for -1.
indexOfString(s, sub) ==
    IF includes(s, sub)
    THEN CHOOSE i \in 1..(Len(s) - Len(sub) + 1) :
             /\ slice(s, i, i + Len(sub) - 1) = sub
             /\ \A j \in 1..(i - 1) : slice(s, j, j + Len(sub) - 1) # sub
    ELSE 0

\* A rewrite that leaves every path as it is.
keepDocumentationPath(path, externalOrigin) ==
    IF ~truthy(path) THEN <<>> ELSE path[1]

\* externalOrigin is <<>> where the option is not given.
rewriteDocumentationPath(path, externalOrigin) ==
    IF ~truthy(path) THEN <<>>
    ELSE IF ~truthy(externalOrigin) \/ ~startsWith(path[1], <<"/","d","o","c","u","m","e","n","t","a","t","i","o","n","/">>)
    THEN path[1]
    ELSE <<"/","e","x","t","e","r","n","a","l","/">> \o externalOrigin[1] \o path[1]

\* references?.[identifier]: <<>> or <<reference>>; references is <<>> or
\* <<map>>, a map being a sequence of [key, value].
lookupReference(references, identifier) ==
    IF references = <<>> THEN <<>>
    ELSE IF \E i \in 1..Len(references[1]) : references[1][i].key = identifier
    THEN <<references[1][CHOOSE i \in 1..Len(references[1]) :
                             references[1][i].key = identifier].value>>
    ELSE <<>>

\* "/documentation/" + matches[1] of identifier.match(/\/documentation\/(.+)/),
\* <<>> where there is no match.
documentationMatch(identifier) ==
    IF indexOfString(identifier, <<"/","d","o","c","u","m","e","n","t","a","t","i","o","n","/">>) = 0
       \/ indexOfString(identifier, <<"/","d","o","c","u","m","e","n","t","a","t","i","o","n","/">>) + 15 > Len(identifier)
    THEN <<>>
    ELSE <<slice(identifier, indexOfString(identifier, <<"/","d","o","c","u","m","e","n","t","a","t","i","o","n","/">>), Len(identifier))>>

convertIdentifierToURL(identifier, references, externalOrigin) ==
    IF lookupReference(references, identifier) # <<>>
       /\ truthy(lookupReference(references, identifier)[1].url)
    THEN rewriteDocumentationPath(lookupReference(references, identifier)[1].url,
                                  externalOrigin)
    ELSE IF startsWith(identifier, <<"d","o","c",":","/","/","c","o","m",".","a","p","p","l","e",".","S","w","i","f","t","U","I","/","d","o","c","u","m","e","n","t","a","t","i","o","n","/">>)
    THEN rewriteDocumentationPath(
             <<<<"/","d","o","c","u","m","e","n","t","a","t","i","o","n","/">> \o slice(identifier, 39, Len(identifier))>>,
             externalOrigin)
    ELSE IF startsWith(identifier, <<"d","o","c",":","/","/">>) /\ documentationMatch(identifier) # <<>>
    THEN rewriteDocumentationPath(documentationMatch(identifier), externalOrigin)
    ELSE identifier

\* lastPart.match(/^(.+?)(?:-\w+)?$/)[1]: the shortest non-empty prefix that is
\* followed by the end or by "-" and word characters up to the end.
baseNameOf(lastPart) ==
    LET word == SeqToSet(LowerChars) \cup SeqToSet(UpperChars) \cup Digits \cup {"_"}
        fits(k) == \/ k = Len(lastPart)
                   \/ /\ lastPart[k + 1] = "-"
                      /\ k + 2 <= Len(lastPart)
                      /\ \A i \in (k + 2)..Len(lastPart) : lastPart[i] \in word
    IN  slice(lastPart, 1, CHOOSE k \in 1..Len(lastPart) :
                               fits(k) /\ \A j \in 1..(k - 1) : ~fits(j))

\* .replace(/([a-z])([A-Z])/g, "$1 $2").replace(/\s+/g, " ").trim()
readable(name) ==
    LET RECURSIVE spaced(_)
        spaced(s) ==
            IF Len(s) < 2 THEN s
            ELSE IF Head(s) \in SeqToSet(LowerChars) /\ s[2] \in SeqToSet(UpperChars)
            THEN <<Head(s), " ", s[2]>> \o spaced(slice(s, 3, Len(s)))
            ELSE <<Head(s)>> \o spaced(Tail(s))
        RECURSIVE squeezed(_)
        squeezed(s) ==
            IF s = <<>> THEN <<>>
            ELSE IF Head(s) \in WhiteSpace
            THEN IF Len(s) >= 2 /\ s[2] \in WhiteSpace THEN squeezed(Tail(s))
                 ELSE <<" ">> \o squeezed(Tail(s))
            ELSE <<Head(s)>> \o squeezed(Tail(s))
    IN  trim(squeezed(spaced(name)))

extractTitleFromIdentifier(identifier) ==
    LET parts == splitOn(identifier, {"/"})
        lastPart == parts[Len(parts)]
    IN  IF lastPart = <<>> THEN <<>>
        ELSE IF "(" \in SeqToSet(baseNameOf(lastPart)) /\ ")" \in SeqToSet(baseNameOf(lastPart))
        THEN baseNameOf(lastPart)
        ELSE readable(baseNameOf(lastPart))

mapAsideStyleToCallout(style) ==
    LET lower == toLowerCase(style)
    IN  IF lower = <<"w","a","r","n","i","n","g">> THEN <<"W","A","R","N","I","N","G">>
        ELSE IF lower = <<"i","m","p","o","r","t","a","n","t">> THEN <<"I","M","P","O","R","T","A","N","T">>
        ELSE IF lower = <<"c","a","u","t","i","o","n">> THEN <<"C","A","U","T","I","O","N">>
        ELSE IF lower = <<"t","i","p">> THEN <<"T","I","P">>
        ELSE IF lower = <<"d","e","p","r","e","c","a","t","e","d">> THEN <<"W","A","R","N","I","N","G">>
        ELSE <<"N","O","T","E">>

\* A content item (ContentItem or IndexContentItem) with none of its
\* properties, and a reference of the reference map likewise. An array of
\* items is the sequence of their positions in jsonData.nodes.
NoItem ==
    [type |-> <<>>, text |-> <<>>, level |-> <<>>, inlineContent |-> <<>>,
     code |-> <<>>, codeLines |-> <<>>, syntax |-> <<>>, items |-> <<>>,
     content |-> <<>>, style |-> <<>>, header |-> <<>>, rows |-> <<>>,
     identifier |-> <<>>, title |-> <<>>, path |-> <<>>, beta |-> FALSE,
     children |-> <<>>]

NoReference ==
    [title |-> <<>>, url |-> <<>>, abstract |-> <<>>, variants |-> <<>>, alt |-> <<>>]

\* String(n) for a natural number.
RECURSIVE toDigits(_)
toDigits(n) ==
    IF n < 10 THEN <<ToString(n)>> ELSE toDigits(n \div 10) \o <<ToString(n % 10)>>

\* c.repeat(n), n >= 0.
repeat(c, n) == [i \in 1..n |-> c]

\* The recursive walks of the renderer are run call by call: a call is
\* [walk, items, depth], walk being "content" (renderContentArray), "inline"
\* (renderInlineContent) or "index" (renderIndexContentWithIndent, depth
\* holding its headingLevel).
renderCall(walk, items, depth) == [walk |-> walk, items |-> items, depth |-> depth]

\* The first statement of renderContentArray and of renderInlineContent: the
\* call returns its placeholder at once. renderIndexContentWithIndent has no
\* such statement.
returnsPlaceholder(c) ==
    \/ c.walk = "content" /\ c.depth > 50
    \/ c.walk = "inline" /\ c.depth > 20

placeholderOf(c) ==
    IF c.walk = "content" THEN <<"[","C","o","n","t","e","n","t"," ","t","o","o"," ","d","e","e","p","l","y"," ","n","e","s","t","e","d","]">>
    ELSE <<"[","I","n","l","i","n","e"," ","c","o","n","t","e","n","t"," ","t","o","o"," ","d","e","e","p","l","y"," ","n","e","s","t","e","d","]">>

\* The recursive calls the loop body of a walk makes for item, in order, in a
\* call with the given depth.
recursiveCalls(walk, item, depth) ==
    CASE walk = "content" /\ item.type = <<"p","a","r","a","g","r","a","p","h">> /\ item.inlineContent # <<>> ->
             <<renderCall("inline", item.inlineContent[1], depth)>>
      [] walk = "content" /\ item.type \in {<<"u","n","o","r","d","e","r","e","d","L","i","s","t">>, <<"o","r","d","e","r","e","d","L","i","s","t">>}
              /\ item.items # <<>> ->
             [j \in 1..Len(item.items[1]) |->
                 renderCall("content",
                            IF item.items[1][j].content = <<>> THEN <<>>
                            ELSE item.items[1][j].content[1],
                            depth + 1)]
      [] walk = "content" /\ item.type = <<"a","s","i","d","e">> /\ item.content # <<>> ->
             <<renderCall("content", item.content[1], depth + 1)>>
      [] walk = "content" /\ item.type = <<"t","a","b","l","e">> /\ item.rows # <<>> ->
             [k \in 1..Len(join(item.rows[1], <<>>)) |->
                 renderCall("content", join(item.rows[1], <<>>)[k], depth + 1)]
      [] walk = "inline" /\ item.type \in {<<"e","m","p","h","a","s","i","s">>, <<"s","t","r","o","n","g">>}
              /\ item.inlineContent # <<>> ->
             <<renderCall("inline", item.inlineContent[1], depth + 1)>>
      [] walk = "index" /\ item.type # <<"g","r","o","u","p","M","a","r","k","e","r">> /\ truthy(item.path)
              /\ truthy(item.title) /\ item.children # <<>> ->
             <<renderCall("index", item.children[1], depth + 1)>>
      [] OTHER -> <<>>

\* One item of the map of renderInlineContent; results holds what the recursive
\* call returned, if there was one.
renderInlineItem(item, results, references, externalOrigin) ==
    CASE item.type = <<"t","e","x","t">> -> (IF item.text = <<>> THEN <<>> ELSE item.text[1])
      [] item.type = <<"c","o","d","e","V","o","i","c","e">> -> <<"GRAVE">> \o interpolate(item.code) \o <<"GRAVE">>
      [] item.type = <<"r","e","f","e","r","e","n","c","e">> ->
             <<"[">>
               \o (IF truthy(item.title) THEN item.title[1]
                   ELSE IF truthy(item.text) THEN item.text[1]
                   ELSE IF truthy(item.identifier)
                   THEN extractTitleFromIdentifier(item.identifier[1])
                   ELSE <<>>)
               \o <<"]", "(">>
               \o (IF truthy(item.identifier)
                   THEN convertIdentifierToURL(item.identifier[1], references,
                                               externalOrigin)
                   ELSE <<>>)
               \o <<")">>
      [] item.type = <<"e","m","p","h","a","s","i","s">> -> <<"*">> \o join(results, <<>>) \o <<"*">>
      [] item.type = <<"s","t","r","o","n","g">> -> <<"*", "*">> \o join(results, <<>>) \o <<"*", "*">>
      [] item.type = <<"i","m","a","g","e">> /\ truthy(item.identifier) ->
             LET ref == lookupReference(references, item.identifier[1])
                 url == IF ref = <<>> \/ ref[1].variants = <<>> \/ ref[1].variants[1] = <<>>
                        THEN <<>>
                        ELSE ref[1].variants[1][1].url
                 alt == IF ref = <<>> \/ ref[1].alt = <<>> THEN <<>> ELSE ref[1].alt[1]
             IN  IF truthy(url)
                 THEN <<"!", "[">> \o alt \o <<"]", "(">> \o url[1] \o <<")">>
                 ELSE <<>>
      [] OTHER -> IF truthy(item.text) THEN item.text[1] ELSE <<>>

\* itemText.replace(/\n\n$/, "")
dropFinalBlankLine(s) ==
    IF endsWith(s, <<"\n", "\n">>) THEN slice(s, 1, Len(s) - 2) ELSE s

\* renderTable: cells holds what renderContentArray returned for the cells of
\* all rows, in order (a cell is the array of its content items).
renderTable(item, cells) ==
    LET rows == IF item.rows = <<>> THEN <<>> ELSE item.rows[1]
        renderCell(rendered) ==
            trim(replaceChar(replaceChar(rendered, "|", <<"\\", "|">>), "\n", <<" ">>))
        cellsOf(r) ==
            [c \in 1..Len(rows[r]) |->
                renderCell(cells[Len(join(SubSeq(rows, 1, r - 1), <<>>)) + c])]
        markdown ==
            join([r \in 1..Len(rows) |->
                     IF rows[r] = <<>> THEN <<>>
                     ELSE <<"|", " ">> \o join(cellsOf(r), <<" ", "|", " ">>)
                            \o <<" ", "|", "\n">>
                            \o (IF item.header = <<<<"r","o","w">>>> /\ r = 1
                                THEN <<"|", " ">>
                                       \o join([c \in 1..Len(rows[r]) |-> <<"-", "-", "-">>],
                                               <<" ", "|", " ">>)
                                       \o <<" ", "|", "\n">>
                                ELSE <<>>)],
                 <<>>)
    IN  IF markdown = <<>> THEN <<>> ELSE markdown \o <<"\n">>

\* One iteration of the loop of renderContentArray; results holds what the
\* recursive calls of the iteration returned.
renderContentItem(item, results, references, externalOrigin) ==
    CASE item.type = <<"h","e","a","d","i","n","g">> ->
             repeat("#", IF item.level = <<>> \/ item.level[1] = 0 THEN 2
                         ELSE IF item.level[1] > 6 THEN 6 ELSE item.level[1])
               \o <<" ">> \o interpolate(item.text) \o <<"\n", "\n">>
      [] item.type = <<"p","a","r","a","g","r","a","p","h">> /\ item.inlineContent # <<>> ->
             results[1] \o <<"\n", "\n">>
      [] item.type = <<"c","o","d","e","L","i","s","t","i","n","g">> ->
             <<"GRAVE", "GRAVE", "GRAVE">>
               \o (IF truthy(item.syntax) THEN item.syntax[1] ELSE <<"s","w","i","f","t">>)
               \o <<"\n">>
               \o (IF item.codeLines # <<>> THEN join(item.codeLines[1], <<"\n">>)
                   ELSE IF truthy(item.code) THEN item.code[1] ELSE <<>>)
               \o <<"\n", "GRAVE", "GRAVE", "GRAVE", "\n", "\n">>
      [] item.type \in {<<"u","n","o","r","d","e","r","e","d","L","i","s","t">>, <<"o","r","d","e","r","e","d","L","i","s","t">>} /\ item.items # <<>> ->
             join([j \in 1..Len(results) |->
                      (IF item.type = <<"u","n","o","r","d","e","r","e","d","L","i","s","t">> THEN <<"-", " ">>
                       ELSE toDigits(j) \o <<".", " ">>)
                        \o dropFinalBlankLine(results[j]) \o <<"\n">>],
                  <<>>)
               \o <<"\n">>
      [] item.type = <<"a","s","i","d","e">> ->
             <<">", " ", "[", "!">>
               \o mapAsideStyleToCallout(IF truthy(item.style) THEN item.style[1]
                                         ELSE <<"n","o","t","e">>)
               \o <<"]", "\n", ">", " ">>
               \o replaceChar(trim(join(results, <<>>)), "\n", <<"\n", ">", " ">>)
               \o <<"\n", "\n">>
      [] item.type = <<"t","a","b","l","e">> -> renderTable(item, results)
      [] OTHER -> <<>>

\* One iteration of the loop of renderIndexContentWithIndent, for the child
\* at index i (from 1).
renderIndexChild(child, i, headingLevel, results, externalOrigin) ==
    CASE child.type = <<"g","r","o","u","p","M","a","r","k","e","r">> ->
             (IF i > 1 THEN <<"\n">> ELSE <<>>)
               \o repeat("#", IF headingLevel > 6 THEN 6 ELSE headingLevel)
               \o <<" ">> \o interpolate(child.title) \o <<"\n", "\n">>
      [] child.type # <<"g","r","o","u","p","M","a","r","k","e","r">> /\ truthy(child.path) /\ truthy(child.title) ->
             <<"-", " ", "[">> \o child.title[1] \o <<"]", "(">>
               \o rewriteDocumentationPath(child.path, externalOrigin)
               \o <<")">>
               \o (IF child.beta THEN <<" ","*","*","B","e","t","a","*","*">> ELSE <<>>)
               \o <<"\n">>
               \o (IF child.children = <<>> THEN <<>> ELSE <<"\n">> \o results[1])
      [] OTHER -> <<>>

\* What one iteration of the loop of a walk adds to its markdown.
renderItem(walk, item, i, depth, results, references, externalOrigin) ==
    CASE walk = "content" -> renderContentItem(item, results, references, externalOrigin)
      [] walk = "inline" -> renderInlineItem(item, results, references, externalOrigin)
      [] walk = "index" -> renderIndexChild(item, i, depth, results, externalOrigin)

\* info?.title || reference?.title || extractTitleFromIdentifier(id), the URL,
\* and (withAbstract) the abstract of the variant or else of the reference:
\* one "- [title](url)" line of a relationship, topic or see-also section.
renderIdentifierLine(id, variants, references, externalOrigin, withAbstract) ==
    LET info == IF variants = <<>>
                   \/ ~\E i \in 1..Len(variants[1]) : variants[1][i].identifier = id
                THEN <<>>
                ELSE <<variants[1][CHOOSE i \in 1..Len(variants[1]) :
                                       /\ variants[1][i].identifier = id
                                       /\ \A j \in 1..(i - 1) :
                                              variants[1][j].identifier # id]>>
        reference == lookupReference(references, id)
        texts(abstract) == join([i \in 1..Len(abstract) |->
                                    IF abstract[i].text = <<>> THEN <<>>
                                    ELSE abstract[i].text[1]], <<>>)
        abstract == IF ~withAbstract THEN <<>>
                    ELSE IF info # <<>> /\ info[1].abstract # <<>>
                    THEN texts(info[1].abstract[1])
                    ELSE IF reference # <<>> /\ reference[1].abstract # <<>>
                    THEN texts(reference[1].abstract[1])
                    ELSE <<>>
    IN  <<"-", " ", "[">>
          \o (IF info # <<>> /\ truthy(info[1].title) THEN info[1].title[1]
              ELSE IF reference # <<>> /\ truthy(reference[1].title) THEN reference[1].title[1]
              ELSE extractTitleFromIdentifier(id))
          \o <<"]", "(">> \o convertIdentifierToURL(id, references, externalOrigin) \o <<")">>
          \o (IF abstract = <<>> THEN <<>> ELSE <<" ">> \o abstract)
          \o <<"\n">>

\* renderRelationships and renderSeeAlso are the same loop.
renderRelationships(relationships, variants, references, externalOrigin) ==
    join([s \in 1..Len(relationships) |->
             IF truthy(relationships[s].title) /\ relationships[s].identifiers # <<>>
             THEN <<"#","#"," ">> \o relationships[s].title[1] \o <<"\n", "\n">>
                    \o join([i \in 1..Len(relationships[s].identifiers[1]) |->
                                renderIdentifierLine(relationships[s].identifiers[1][i],
                                                     variants, references, externalOrigin,
                                                     FALSE)],
                            <<>>)
                    \o <<"\n">>
             ELSE <<>>],
         <<>>)

renderSeeAlso(seeAlso, variants, references, externalOrigin) ==
    renderRelationships(seeAlso, variants, references, externalOrigin)

renderTopicSections(topics, variants, references, externalOrigin) ==
    join([s \in 1..Len(topics) |->
             IF ~truthy(topics[s].title) THEN <<>>
             ELSE <<"#","#"," ">> \o topics[s].title[1] \o <<"\n", "\n">>
                    \o (IF topics[s].identifiers = <<>> THEN <<>>
                        ELSE join([i \in 1..Len(topics[s].identifiers[1]) |->
                                      renderIdentifierLine(topics[s].identifiers[1][i],
                                                           variants, references,
                                                           externalOrigin, TRUE)],
                                  <<>>)
                               \o <<"\n">>)],
         <<>>)

\* "RSAQUO" stands for the character U+203A of the separator.
generateBreadcrumbs(sourceUrl, externalOrigin) ==
    LET pathParts == SelectSeq(splitOn(parseURL(sourceUrl).pathname, {"/"}),
                               LAMBDA part : part # <<>>)
        found == \E i \in 1..Len(pathParts) : pathParts[i] = <<"d","o","c","u","m","e","n","t","a","t","i","o","n">>
        documentationAt == CHOOSE i \in 1..Len(pathParts) :
                               /\ pathParts[i] = <<"d","o","c","u","m","e","n","t","a","t","i","o","n">>
                               /\ \A j \in 1..(i - 1) : pathParts[j] # <<"d","o","c","u","m","e","n","t","a","t","i","o","n">>
    IN  IF ~found \/ Len(pathParts) <= documentationAt + 1 THEN <<>>
        ELSE <<"*","*","N","a","v","i","g","a","t","i","o","n",":","*","*"," ","[">>
               \o toUpperCase(slice(pathParts[documentationAt + 1], 1, 1))
               \o slice(pathParts[documentationAt + 1], 2,
                        Len(pathParts[documentationAt + 1]))
               \o <<"]", "(">>
               \o rewriteDocumentationPath(
                      <<<<"/","d","o","c","u","m","e","n","t","a","t","i","o","n","/">> \o pathParts[documentationAt + 1]>>,
                      externalOrigin)
               \o <<")">>
               \o join([k \in 1..(Len(pathParts) - documentationAt - 2) |->
                           <<" ", "RSAQUO", " ", "[">>
                             \o pathParts[documentationAt + 1 + k]
                             \o <<"]", "(">>
                             \o rewriteDocumentationPath(
                                    <<<<"/">>
                                        \o join(SubSeq(pathParts, documentationAt,
                                                       documentationAt + 1 + k),
                                                <<"/">>)>>,
                                    externalOrigin)
                             \o <<")">>],
                       <<>>)
               \o <<"\n", "\n">>

\* jsonData.abstract.filter(type === "text").map(text).join("")
abstractText(abstract) ==
    join([i \in 1..Len(abstract) |->
             IF abstract[i].type = <<"t","e","x","t">> /\ abstract[i].text # <<>>
             THEN abstract[i].text[1] ELSE <<>>],
         <<>>)

\* new Date().toISOString() with the clock at 0.
Timestamp == <<"1","9","7","0","-","0","1","-","0","1","T","0","0",":","0","0",":","0","0",".","0","0","0","Z">>

generateFrontMatterFromJSON(jsonData, sourceUrl) ==
    LET marker == <<"|"," ","A","p","p","l","e"," ","D","e","v","e","l","o","p","e","r"," ","D","o","c","u","m","e","n","t","a","t","i","o","n">>
        cleanTitle(title) ==
            trim(IF indexOfString(title, marker) = 0 THEN title
                 ELSE slice(title, 1, indexOfString(title, marker) - 1)
                        \o slice(title, indexOfString(title, marker) + Len(marker),
                                 Len(title)))
        swift == IF jsonData.interfaceLanguages = <<>> THEN <<>>
                 ELSE jsonData.interfaceLanguages[1].swift
    IN  <<"-","-","-","\n">>
          \o (IF jsonData.metadata # <<>> /\ truthy(jsonData.metadata[1].title)
              THEN <<"t","i","t","l","e",":"," ">> \o cleanTitle(jsonData.metadata[1].title[1]) \o <<"\n">>
              ELSE IF swift # <<>> /\ swift[1] # <<>> /\ truthy(swift[1][1].title)
              THEN <<"t","i","t","l","e",":"," ">> \o swift[1][1].title[1] \o <<"\n">>
              ELSE <<>>)
          \o (IF jsonData.abstract # <<>> /\ trim(abstractText(jsonData.abstract[1])) # <<>>
              THEN <<"d","e","s","c","r","i","p","t","i","o","n",":"," ">> \o trim(abstractText(jsonData.abstract[1])) \o <<"\n">>
              ELSE <<>>)
          \o <<"s","o","u","r","c","e",":"," ">> \o sourceUrl \o <<"\n">>
          \o <<"t","i","m","e","s","t","a","m","p",":"," ">> \o Timestamp
          \o <<"\n","-","-","-","\n","\n">>

renderDeclarations(declarations) ==
    join([d \in 1..Len(declarations) |->
             IF declarations[d].tokens = <<>> THEN <<>>
             ELSE <<"GRAVE", "GRAVE", "GRAVE">> \o <<"s","w","i","f","t","\n">>
                    \o trim(join([t \in 1..Len(declarations[d].tokens[1]) |->
                                     IF truthy(declarations[d].tokens[1][t].text)
                                     THEN declarations[d].tokens[1][t].text[1]
                                     ELSE <<>>],
                                 <<>>))
                    \o <<"\n", "GRAVE", "GRAVE", "GRAVE", "\n", "\n">>],
         <<>>)

\* contents holds what renderContentArray returned for the parameters that
\* have content, in order.
renderParameters(parameters, contents) ==
    IF parameters = <<>> THEN <<>>
    ELSE <<"#","#"," ","P","a","r","a","m","e","t","e","r","s","\n","\n">>
           \o join([p \in 1..Len(parameters) |->
                       <<"*", "*">> \o interpolate(parameters[p].name) \o <<"*","*","\n","\n">>
                         \o (IF parameters[p].content = <<>> THEN <<>>
                             ELSE contents[Len(SelectSeq(SubSeq(parameters, 1, p),
                                                         LAMBDA q : q.content # <<>>))]
                                    \o <<"\n", "\n">>)],
                   <<>>)

Footer ==
    <<"\n","\n","-","-","-","\n","\n">>
      \o <<"*","E","x","t","r","a","c","t","e","d"," ","b","y"," ","[","s","o","s","u","m","i",".","a","i","]","(","h","t","t","p","s",":","/","/","s","o","s","u","m","i",".","a","i",")"," ","-"," ","M","a","k","i","n","g"," ","A","p","p","l","e"," ","d","o","c","s"," ","A","I","-","r","e","a","d","a","b","l","e",".","*","\n">>
      \o <<"*","T","h","i","s"," ","i","s"," ","u","n","o","f","f","i","c","i","a","l"," ","c","o","n","t","e","n","t","."," ","A","l","l"," ","d","o","c","u","m","e","n","t","a","t","i","o","n"," ","b","e","l","o","n","g","s"," ","t","o"," ","A","p","p","l","e"," ","I","n","c",".","*","\n">>

\* jsonData.primaryContentSections.find(s => s.kind === kind)?.[kind], as one
\* array: the declarations, or the parameters.
primarySection(jsonData, kind) ==
    LET found == IF jsonData.primaryContentSections = <<>> THEN <<>>
                 ELSE SelectSeq(jsonData.primaryContentSections[1],
                                LAMBDA s : s.kind = kind)
    IN  IF found = <<>> THEN <<>>
        ELSE IF kind = <<"d","e","c","l","a","r","a","t","i","o","n","s">> THEN found[1].declarations
        ELSE found[1].parameters

\* The calls of the walks renderFromJSON makes, in order: renderContentArray
\* for the parameters with content (renderParameters) and for the content
\* sections with content (renderContent), renderIndexContentWithIndent for the
\* children of the first entry of the Swift index (renderIndexContent).
documentCalls(jsonData) ==
    LET parameters == primarySection(jsonData, <<"p","a","r","a","m","e","t","e","r","s">>)
        sections == IF jsonData.primaryContentSections = <<>> THEN <<>>
                    ELSE SelectSeq(jsonData.primaryContentSections[1],
                                   LAMBDA s : s.kind = <<"c","o","n","t","e","n","t">> /\ s.content # <<>>)
        swift == IF jsonData.interfaceLanguages = <<>> THEN <<>>
                 ELSE jsonData.interfaceLanguages[1].swift
    IN  (IF parameters = <<>> THEN <<>>
         ELSE [p \in 1..Len(SelectSeq(parameters[1], LAMBDA q : q.content # <<>>)) |->
                  renderCall("content",
                             SelectSeq(parameters[1], LAMBDA q : q.content # <<>>)[p].content[1],
                             0)])
          \o [s \in 1..Len(sections) |-> renderCall("content", sections[s].content[1], 0)]
          \o (IF swift = <<>> \/ swift[1] = <<>> \/ swift[1][1].children = <<>> THEN <<>>
              ELSE <<renderCall("index", swift[1][1].children[1], 2)>>)

\* renderFromJSON, results holding what the calls of documentCalls returned.
\* options.externalOrigin is <<>> where it is not given. The result is
\* [ok |-> TRUE, markdown |-> ...], or [ok |-> FALSE, ...] where the code
\* throws: jsonData.interfaceLanguages.swift[0] is undefined for an empty
\* array, and reading .children of it is a TypeError.
renderFromJSON(jsonData, sourceUrl, externalOrigin, results) ==
    LET metadata == jsonData.metadata
        declarations == primarySection(jsonData, <<"d","e","c","l","a","r","a","t","i","o","n","s">>)
        parameters == primarySection(jsonData, <<"p","a","r","a","m","e","t","e","r","s">>)
        parameterCalls ==
            IF parameters = <<>> THEN 0
            ELSE Len(SelectSeq(parameters[1], LAMBDA q : q.content # <<>>))
        swift == IF jsonData.interfaceLanguages = <<>> THEN <<>>
                 ELSE jsonData.interfaceLanguages[1].swift
        hasIndex == swift # <<>> /\ swift[1][1].children # <<>>
        body ==
            generateFrontMatterFromJSON(jsonData, sourceUrl)
              \o generateBreadcrumbs(sourceUrl, externalOrigin)
              \o (IF metadata # <<>> /\ truthy(metadata[1].roleHeading)
                  THEN <<"*", "*">> \o metadata[1].roleHeading[1] \o <<"*","*","\n","\n">> ELSE <<>>)
              \o (IF metadata # <<>> /\ truthy(metadata[1].title)
                  THEN <<"#"," ">> \o metadata[1].title[1] \o <<"\n", "\n">> ELSE <<>>)
              \o (IF metadata # <<>> /\ metadata[1].platforms # <<>>
                     /\ metadata[1].platforms[1] # <<>>
                  THEN <<"*","*","A","v","a","i","l","a","b","l","e"," ","o","n",":","*","*"," ">>
                         \o join([p \in 1..Len(metadata[1].platforms[1]) |->
                                     interpolate(metadata[1].platforms[1][p].name)
                                       \o <<" ">>
                                       \o interpolate(metadata[1].platforms[1][p].introducedAt)
                                       \o <<"+">>
                                       \o (IF metadata[1].platforms[1][p].beta
                                           THEN <<" ","B","e","t","a">> ELSE <<>>)],
                                 <<",", " ">>)
                         \o <<"\n", "\n">>
                  ELSE <<>>)
              \o (IF jsonData.abstract # <<>>
                     /\ trim(abstractText(jsonData.abstract[1])) # <<>>
                  THEN <<">", " ">> \o abstractText(jsonData.abstract[1]) \o <<"\n", "\n">>
                  ELSE <<>>)
              \o (IF declarations = <<>> THEN <<>> ELSE renderDeclarations(declarations[1]))
              \o (IF parameters = <<>> THEN <<>>
                  ELSE renderParameters(parameters[1], results))
              \o join(SubSeq(results, parameterCalls + 1,
                             Len(results) - (IF hasIndex THEN 1 ELSE 0)), <<>>)
              \o (IF jsonData.relationshipsSections = <<>> THEN <<>>
                  ELSE renderRelationships(jsonData.relationshipsSections[1],
                                           jsonData.variants, jsonData.references,
                                           externalOrigin))
              \o (IF jsonData.topicSections = <<>> THEN <<>>
                  ELSE renderTopicSections(jsonData.topicSections[1], jsonData.variants,
                                           jsonData.references, externalOrigin))
              \o (IF hasIndex THEN results[Len(results)] ELSE <<>>)
              \o (IF jsonData.seeAlsoSections = <<>> THEN <<>>
                  ELSE renderSeeAlso(jsonData.seeAlsoSections[1], jsonData.variants,
                                     jsonData.references, externalOrigin))
    IN  IF swift # <<>> /\ swift[1] = <<>>
        THEN [ok |-> FALSE, markdown |-> <<>>]
        ELSE [ok |-> TRUE, markdown |-> trim(body) \o Footer]

\* ------------------------------------------------------------------------
\* Bounds and inputs of the request machine
\* ------------------------------------------------------------------------

\* Requests of the gate specification Spec (each slot serves one request).
NumRequests == 1

\* Concurrent callers of the resolver specification SpecResolver.
NumCallers == 2

\* Concurrent callers of the specification SpecCrowd: one more than fit into
\* robotsPolicyInFlight, plus one.
NumCrowd == 3

\* The clock advances at most MaxTime times.
MaxTime == 2

ROBOTS_CACHE_TTL_MS == 5 * 60 * 1000

\* Date.now() advances in steps of half the TTL, so that a check can fall
\* inside the window, exactly on its end, and after it.
ClockStep == ROBOTS_CACHE_TTL_MS \div 2

\* Capacity of robotsPolicyCache; 1000 in the code, scaled to the model.
ROBOTS_CACHE_MAX_ENTRIES == 2

\* Capacity of robotsPolicyInFlight; 1000 in the code, scaled to the model.
ROBOTS_INFLIGHT_MAX_ENTRIES == 1

HostSub     == <<"a",".","b",".","c","o">>
HostRoot    == <<"b",".","c","o">>
HostPrivate == <<"1","0",".","0",".","0",".","1">>

HttpsPrefix == <<"h","t","t","p","s",":","/","/">>

\* Raw target URLs of the requests.
Targets ==
    << HttpsPrefix \o HostSub \o DocumentationSegment \o <<"/","x">>,
       HttpsPrefix \o HostSub \o <<"/","p">> \o DocumentationSegment \o <<"/","x">>,
       HttpsPrefix \o HostRoot \o DocumentationSegment \o <<"/","x">>,
       HttpsPrefix \o HostPrivate \o DocumentationSegment \o <<"/","x">>,
       HttpsPrefix \o HostRoot \o <<"/","x">>,
       HttpsPrefix \o HostRoot \o DocumentationSegment \o <<"#","f">> >>

\* The targets of the requests of Spec, and of the checks of SpecResolver (one
\* per origin), as indices of Targets.
GateTargets == 1..Len(Targets)

CheckTargets == {1, 3}

\* Operator configurations: EXTERNAL_DOC_HOST_ALLOWLIST / _BLOCKLIST raw values.
EnvEmpty == [allow |-> <<>>, block |-> <<>>]

Envs ==
    { EnvEmpty,
      [allow |-> HostPrivate, block |-> <<>>],
      [allow |-> <<>>, block |-> <<"B",".","c","o","\n">>] }

\* An allowlist that covers the hosts of CacheTargets, and CacheTargets: one
\* target per origin (a.b.co, b.co, 10.0.0.1), one origin more than the
\* cache holds.
EnvThreeHosts == [allow |-> HostPrivate \o <<",">> \o HostRoot, block |-> <<>>]

CacheTargets == {1, 3, 4}

Kinds == {"assert", "markdown", "route"}

\* "User-agent: *\nDisallow: /p"
RobotsBody ==
    <<"U","s","e","r","-","a","g","e","n","t",":"," ","*","\n",
      "D","i","s","a","l","l","o","w",":"," ","/","p">>

\* HTTP statuses the robots.txt server answers with (200 carries RobotsBody),
\* and the two of them the resolver specifications draw from.
RobotsStatuses == {200, 401, 403, 404, 410, 500}

CheckStatuses == {200, 404}

\* Responses of the JSON data endpoint: status and X-Robots-Tag header.
JsonResponses ==
    { [status |-> 200, xRobotsTag |-> <<>>],
      [status |-> 200, xRobotsTag |-> <<"N","o","A","I",","," ","x">>],
      [status |-> 404, xRobotsTag |-> <<>>],
      [status |-> 500, xRobotsTag |-> <<>>] }

NoPolicy == [kind |-> NONE, robotsText |-> <<>>]

RobotsTxtPath == <<"/","r","o","b","o","t","s",".","t","x","t">>

\* ------------------------------------------------------------------------
\* State
\* ------------------------------------------------------------------------

VARIABLES
    now,                   \* Date.now()
    robotsPolicyCache,     \* Map origin -> {expiresAt, policy}, in insertion order
    robotsPolicyInFlight,  \* Map origin -> pending request, in insertion order
    resolutions,           \* the promises created by getRobotsPolicy
    procs,                 \* the requests: position (pc, stage, wait), inputs (kind,
                           \* target) and what they observed: how getRobotsPolicy
                           \* answered (via, got), the fetches issued (calls), the
                           \* result of the gate (gate) and of the request (outcome)
    lastWrite,             \* history: the latest robotsPolicyCache.set
    call                   \* a direct call of one of the exported or internal pure
                           \* functions: its arguments and, once it returned, its result

vars == <<now, robotsPolicyCache, robotsPolicyInFlight, resolutions, procs, lastWrite, call>>

Procs == DOMAIN procs

IdleProc ==
    [pc |-> "idle", kind |-> NONE, target |-> 0, stage |-> 0, wait |-> 0,
     via |-> NONE, got |-> NoPolicy, calls |-> <<>>, gate |-> NONE, outcome |-> NONE]

\* No pure function is called on its own in the request specifications.
NoCall == [fn |-> NONE]

InitWith(n) ==
    /\ now = 0
    /\ robotsPolicyCache = <<>>
    /\ robotsPolicyInFlight = <<>>
    /\ resolutions = {}
    /\ procs = [p \in 1..n |-> IdleProc]
    /\ lastWrite = [origin |-> <<>>, time |-> 0]
    /\ call = NoCall

Init == InitWith(NumRequests)

InitResolver == InitWith(NumCallers)

InitCrowd == InitWith(NumCrowd)

\* ------------------------------------------------------------------------
\* JavaScript Map (insertion-ordered): a sequence of [key, value]
\* ------------------------------------------------------------------------

mapIndex(map, key) ==
    IF \E i \in 1..Len(map) : map[i].key = key
    THEN CHOOSE i \in 1..Len(map) : map[i].key = key
    ELSE 0

mapHas(map, key) == mapIndex(map, key) # 0

mapSet(map, key, value) ==
    IF mapHas(map, key)
    THEN [map EXCEPT ![mapIndex(map, key)].value = value]
    ELSE Append(map, [key |-> key, value |-> value])

mapDelete(map, key) == SelectSeq(map, LAMBDA e : e.key # key)

\* ------------------------------------------------------------------------
\* Robots policy resolver (policy.ts: getRobotsPolicy, fetchRobotsPolicy,
\* pruneExpiredRobotsPolicyEntries, enforceMaxMapEntries)
\* ------------------------------------------------------------------------

\* A prune that drops an entry only once its expiry lies in the past, keeping
\* the entry that expires at t.
pruneStrictlyExpired(cache, t) ==
    SelectSeq(cache, LAMBDA e : ~(e.value.expiresAt < t))

pruneExpiredRobotsPolicyEntries(cache, t) ==
    SelectSeq(cache, LAMBDA e : ~(e.value.expiresAt <= t))

\* An eviction that drops the newest entries, the one just written first.
evictNewestFirst(map, maxEntries, incomingKey) ==
    IF incomingKey # <<>> /\ ~mapHas(map, incomingKey)
    THEN slice(map, 1, maxEntries - 1)
    ELSE slice(map, 1, maxEntries)

\* incomingKey is <<>> where the code passes undefined.
RECURSIVE enforceMaxMapEntries(_, _, _)
enforceMaxMapEntries(map, maxEntries, incomingKey) ==
    IF \/ Len(map) > maxEntries
       \/ (incomingKey # <<>> /\ Len(map) >= maxEntries /\ ~mapHas(map, incomingKey))
    THEN IF map = <<>> THEN map
         ELSE enforceMaxMapEntries(Tail(map), maxEntries, incomingKey)
    ELSE map

\* A fetchRobotsPolicy that treats 401/403 like any other error status.
fetchRobotsPolicyLenient(status, body) ==
    IF ~(status >= 200 /\ status <= 299) THEN [kind |-> "allow-all", robotsText |-> <<>>]
    ELSE [kind |-> "rules", robotsText |-> body]

\* The policy fetchRobotsPolicy returns for a response.
fetchRobotsPolicy(status, body) ==
    IF status = 404 \/ status = 410 THEN [kind |-> "allow-all", robotsText |-> <<>>]
    ELSE IF status = 401 \/ status = 403 THEN [kind |-> "deny-all", robotsText |-> <<>>]
    ELSE IF ~(status >= 200 /\ status <= 299) THEN [kind |-> "allow-all", robotsText |-> <<>>]
    ELSE [kind |-> "rules", robotsText |-> body]

Unsettled == {"fetching", "fulfilled", "rejected", "then-done"}

freshId ==
    CHOOSE i \in 1..(Cardinality(resolutions) + 1) :
        /\ \A r \in resolutions : r.id # i
        /\ \A j \in 1..(i - 1) : \E r \in resolutions : r.id = j

resolutionOf(id) == CHOOSE r \in resolutions : r.id = id

\* getRobotsPolicy(origin) after pruneExpiredRobotsPolicyEntries left pruned:
\* the cache hit, the in-flight hit, or a new request with identity id.
lookupRobotsPolicy(pruned, origin, id) ==
    LET ci == mapIndex(pruned, origin)
        fi == mapIndex(robotsPolicyInFlight, origin)
    IN  IF ci # 0 /\ pruned[ci].value.expiresAt > now
        THEN [cache |-> pruned, inflight |-> robotsPolicyInFlight,
              resolutions |-> resolutions, wait |-> 0, via |-> "cache",
              got |-> pruned[ci].value.policy, fetched |-> <<>>]
        ELSE IF fi # 0
        THEN [cache |-> pruned, inflight |-> robotsPolicyInFlight,
              resolutions |-> resolutions, wait |-> robotsPolicyInFlight[fi].value,
              via |-> "inflight", got |-> NoPolicy, fetched |-> <<>>]
        ELSE [cache |-> pruned,
              inflight |-> mapSet(enforceMaxMapEntries(robotsPolicyInFlight,
                                      ROBOTS_INFLIGHT_MAX_ENTRIES, origin), origin, id),
              resolutions |-> resolutions \cup
                  {[id |-> id, origin |-> origin, state |-> "fetching", status |-> 0,
                    policy |-> NoPolicy, requested |-> <<origin \o RobotsTxtPath>>]},
              wait |-> id, via |-> "fetch", got |-> NoPolicy,
              fetched |-> <<[type |-> "robots", url |-> origin \o RobotsTxtPath]>>]

\* The synchronous part of getRobotsPolicy(origin) at time now: the maps after
\* it, and what the caller holds: a policy (wait = 0) or a pending request.
getRobotsPolicy(origin) ==
    lookupRobotsPolicy(pruneExpiredRobotsPolicyEntries(robotsPolicyCache, now),
                       origin, freshId)

\* A cache write whose entry expires at once.
cacheWithoutTtl(cache, origin, policy, t) ==
    enforceMaxMapEntries(
        mapSet(cache, origin, [expiresAt |-> t, policy |-> policy]),
        ROBOTS_CACHE_MAX_ENTRIES, <<>>)

\* robotsPolicyCache.set(origin, {expiresAt: Date.now() + TTL, policy}) followed
\* by enforceMaxMapEntries(robotsPolicyCache, ROBOTS_CACHE_MAX_ENTRIES).
cacheResolvedPolicy(cache, origin, policy, t) ==
    enforceMaxMapEntries(
        mapSet(cache, origin, [expiresAt |-> t + ROBOTS_CACHE_TTL_MS, policy |-> policy]),
        ROBOTS_CACHE_MAX_ENTRIES, <<>>)

\* A release that runs for a fulfilled fetch only, as a .then would.
releaseInFlightOnSuccess(inflight, origin, state) ==
    IF state = "then-done" THEN mapDelete(inflight, origin) ELSE inflight

\* The .finally callback: robotsPolicyInFlight.delete(origin), whatever the
\* state (fulfilled or rejected) of the promise it follows.
releaseInFlight(inflight, origin, state) == mapDelete(inflight, origin)

\* ------------------------------------------------------------------------
\* Requests: assertExternalDocumentationAccess (policy.ts),
\* fetchExternalDocCJSON / fetchExternalDocumentationMarkdown (fetch.ts),
\* app.get("/external/*") (index.ts)
\* ------------------------------------------------------------------------

HostPolicyErrors == {"HostBlocked", "HostNotAllowlisted", "PrivateHostBlocked"}

finish(pr, outcome) == [pr EXCEPT !.pc = "done", !.outcome = outcome]

\* A step of a request that leaves the shared maps alone.
local(pr) ==
    [proc |-> pr, cache |-> robotsPolicyCache, inflight |-> robotsPolicyInFlight,
     resolutions |-> resolutions]

\* assertExternalDocumentationAccess at its await: the caller holds what
\* getRobotsPolicy returned, the maps are as getRobotsPolicy left them.
awaitRobotsPolicy(pr, g) ==
    [proc |-> [pr EXCEPT !.pc = "awaitRobots", !.stage = @ + 1,
                         !.gate = "pending", !.wait = g.wait, !.via = g.via,
                         !.got = g.got, !.calls = @ \o g.fetched],
     cache |-> g.cache, inflight |-> g.inflight, resolutions |-> g.resolutions]

\* assertHostPolicy returned hostPolicy: its error ends the check, otherwise
\* isAllowedByRobotsTxt -> getRobotsPolicy runs up to the await.
accessAfterHostPolicy(pr, hostPolicy, targetUrl) ==
    IF hostPolicy # "allowed"
    THEN local(finish([pr EXCEPT !.stage = @ + 1, !.gate = hostPolicy,
                                 !.via = NONE, !.got = NoPolicy], hostPolicy))
    ELSE awaitRobotsPolicy(pr, getRobotsPolicy(originOf(targetUrl)))

robotsBeforeHostPolicy(pr, hostPolicy, g) ==
    IF hostPolicy # "allowed"
    THEN [proc |-> finish([pr EXCEPT !.stage = @ + 1, !.gate = hostPolicy,
                                     !.via = NONE, !.got = NoPolicy,
                                     !.calls = @ \o g.fetched], hostPolicy),
          cache |-> g.cache, inflight |-> g.inflight, resolutions |-> g.resolutions]
    ELSE awaitRobotsPolicy(pr, g)

\* An access check that starts the robots.txt resolution before it looks at
\* the host policy.
assertAccessRobotsFirst(pr, targetUrl, env) ==
    robotsBeforeHostPolicy(pr, assertHostPolicy(targetUrl, env),
                           getRobotsPolicy(originOf(targetUrl)))

\* assertExternalDocumentationAccess up to its await: the host policy, then the
\* synchronous part of isAllowedByRobotsTxt -> getRobotsPolicy.
assertExternalDocumentationAccess(pr, targetUrl, env) ==
    accessAfterHostPolicy(pr, assertHostPolicy(targetUrl, env), targetUrl)

\* validateExternalDocumentationUrl threw valid, or returned validatedUrl, which
\* goes through the access check.
accessValidated(pr, valid, validatedUrl, env) ==
    IF valid # "ok" THEN local(finish(pr, valid))
    ELSE assertExternalDocumentationAccess(pr, validatedUrl, env)

\* fetchExternalDocCJSON up to its first await.
fetchExternalDocCJSON(pr, sourceUrl, externalPolicyEnv) ==
    accessValidated(pr, validateExternalDocumentationUrl(toString(sourceUrl)),
                    parseURL(toString(sourceUrl)), externalPolicyEnv)

\* fetchExternalDocCJSON after its gate returned: build the URL, issue the fetch.
fetchJson(pr, validatedUrl) ==
    IF ~extractExternalDocumentationBasePath(validatedUrl).ok
    THEN finish(pr, "NotDocumentationPath")
    ELSE [pr EXCEPT !.pc = "awaitJson",
                    !.calls = Append(@, [type |-> "json",
                                         url |-> buildExternalDocCJsonUrl(validatedUrl)])]

\* A continuation that swallows the error of the gate and goes on to the fetch.
continueIgnoringGate(pr, targetUrl, gateResult) ==
    LET pr1 == [pr EXCEPT !.gate = gateResult]
    IN  IF pr.kind = "assert" THEN local(finish(pr1, gateResult))
        ELSE local(fetchJson(pr1, targetUrl))

\* validateExternalDocumentationUrl threw valid, or returned targetUrl, which
\* goes to fetchExternalDocCJSON.
markdownValidated(pr, valid, targetUrl, externalPolicyEnv) ==
    IF valid # "ok" THEN local(finish(pr, valid))
    ELSE fetchExternalDocCJSON(pr, targetUrl, externalPolicyEnv)

\* fetchExternalDocumentationMarkdown up to its first await.
fetchExternalDocumentationMarkdown(pr, url, externalPolicyEnv) ==
    markdownValidated(pr, validateExternalDocumentationUrl(url), parseURL(url),
                      externalPolicyEnv)

\* app.get("/external/*") up to its first await, rawTarget decoded from the path.
externalRoute(pr, rawTarget, env) ==
    accessValidated(pr, validateExternalDocumentationUrl(rawTarget),
                    parseURL(rawTarget), env)

\* The continuation of a request once its gate has settled with gateResult:
\* "allowed", "RobotsDenied" or "FetchFailure" (the robots.txt fetch rejected).
continueAfterGate(pr, targetUrl, gateResult) ==
    LET pr1 == [pr EXCEPT !.gate = gateResult]
    IN  IF gateResult # "allowed" THEN local(finish(pr1, gateResult))
        ELSE IF pr.kind = "assert" THEN local(finish(pr1, "allowed"))
        ELSE IF pr.kind = "route" /\ pr.stage = 1
             THEN fetchExternalDocCJSON(pr1, targetUrl, EnvEmpty)
        ELSE local(fetchJson(pr1, targetUrl))

\* An outcome that looks at the status before the X-Robots-Tag header.
statusBeforeHeader(resp) ==
    IF ~(resp.status >= 200 /\ resp.status <= 299)
    THEN IF resp.status = 404 THEN "NotFound" ELSE "FetchFailure"
    ELSE IF containsRestrictiveXRobotsTag(resp.xRobotsTag) THEN "AccessDenied"
    ELSE "rendered"

\* fetchExternalDocCJSON once the JSON response has arrived.
jsonOutcome(resp) ==
    IF containsRestrictiveXRobotsTag(resp.xRobotsTag) THEN "AccessDenied"
    ELSE IF ~(resp.status >= 200 /\ resp.status <= 299)
         THEN IF resp.status = 404 THEN "NotFound" ELSE "FetchFailure"
    ELSE "rendered"

\* Promises nobody awaits any more are dropped from the model.
collect(rs, ps) ==
    {r \in rs : r.state \in Unsettled \/ \E p \in Procs : ps[p].wait = r.id}

apply(p, out) ==
    /\ procs' = [procs EXCEPT ![p] = out.proc]
    /\ robotsPolicyCache' = out.cache
    /\ robotsPolicyInFlight' = out.inflight
    /\ resolutions' = collect(out.resolutions, [procs EXCEPT ![p] = out.proc])
    /\ UNCHANGED <<now, lastWrite, call>>

\* Request slots are taken in order.
canStart(p) ==
    /\ procs[p].pc = "idle"
    /\ \A q \in Procs : q < p => procs[q].pc # "idle"

\* A direct call assertExternalDocumentationAccess(new URL(raw), env).
StartAssert(p) ==
    /\ canStart(p)
    /\ \E t \in GateTargets, env \in Envs :
          \E targetUrl \in {parseURL(Targets[t])} :
              /\ targetUrl.ok
              /\ \E out \in {assertExternalDocumentationAccess(
                                  [IdleProc EXCEPT !.kind = "assert", !.target = t],
                                  targetUrl, env)} :
                    apply(p, out)

\* A check of SpecResolver: assertExternalDocumentationAccess(new URL(raw), {}).
StartCheck(p) ==
    /\ canStart(p)
    /\ \E t \in CheckTargets :
          \E out \in {assertExternalDocumentationAccess(
                           [IdleProc EXCEPT !.kind = "assert", !.target = t],
                           parseURL(Targets[t]), EnvEmpty)} :
              apply(p, out)

\* A check of SpecCache: assertExternalDocumentationAccess(new URL(raw), env)
\* with an allowlist that admits every origin of CacheTargets.
StartAllowlistedCheck(p) ==
    /\ canStart(p)
    /\ \E t \in CacheTargets :
          \E out \in {assertExternalDocumentationAccess(
                           [IdleProc EXCEPT !.kind = "assert", !.target = t],
                           parseURL(Targets[t]), EnvThreeHosts)} :
              apply(p, out)

\* A call fetchExternalDocumentationMarkdown(raw, env).
StartMarkdown(p) ==
    /\ canStart(p)
    /\ \E t \in GateTargets, env \in Envs :
          \E out \in {fetchExternalDocumentationMarkdown(
                           [IdleProc EXCEPT !.kind = "markdown", !.target = t],
                           Targets[t], env)} :
              apply(p, out)

\* GET /external/<target> with the operator's configuration c.env.
StartRoute(p) ==
    /\ canStart(p)
    /\ \E t \in GateTargets, env \in Envs :
          \E out \in {externalRoute(
                           [IdleProc EXCEPT !.kind = "route", !.target = t],
                           Targets[t], env)} :
              apply(p, out)

\* The robots.txt server answers the fetch of resolution id: fetchRobotsPolicy
\* resumes and returns its policy.
respond(id, statuses) ==
    /\ \E r \in resolutions :
          /\ r.id = id
          /\ r.state = "fetching"
          /\ \E status \in statuses :
                \E policy \in {fetchRobotsPolicy(status, RobotsBody)} :
                    resolutions' = (resolutions \ {r}) \cup
                        {[r EXCEPT !.state = "fulfilled", !.status = status,
                                   !.policy = policy]}
    /\ UNCHANGED <<now, robotsPolicyCache, robotsPolicyInFlight, procs, lastWrite, call>>

RobotsRespond(id) == respond(id, RobotsStatuses)

\* The same step in the resolver specifications.
RobotsAnswer(id) == respond(id, CheckStatuses)

\* The fetch of resolution id rejects (network failure): fetchRobotsPolicy throws.
RobotsFetchFails(id) ==
    /\ \E r \in resolutions :
          /\ r.id = id
          /\ r.state = "fetching"
          /\ resolutions' = (resolutions \ {r}) \cup {[r EXCEPT !.state = "rejected"]}
    /\ UNCHANGED <<now, robotsPolicyCache, robotsPolicyInFlight, procs, lastWrite, call>>

\* The .then callback of getRobotsPolicy: runs only for a fulfilled fetch.
ThenCallback(id) ==
    /\ \E r \in resolutions :
          /\ r.id = id
          /\ r.state = "fulfilled"
          /\ \E cache \in {cacheResolvedPolicy(robotsPolicyCache, r.origin, r.policy, now)} :
                robotsPolicyCache' = cache
          /\ resolutions' = (resolutions \ {r}) \cup {[r EXCEPT !.state = "then-done"]}
          /\ lastWrite' = [origin |-> r.origin, time |-> now]
    /\ UNCHANGED <<now, robotsPolicyInFlight, procs, call>>

\* The .finally callback of getRobotsPolicy; the request promise then settles.
FinallyCallback(id) ==
    /\ \E r \in resolutions :
          /\ r.id = id
          /\ r.state \in {"then-done", "rejected"}
          /\ \E inflight \in {releaseInFlight(robotsPolicyInFlight, r.origin, r.state)} :
                robotsPolicyInFlight' = inflight
          /\ resolutions' = (resolutions \ {r}) \cup
                 {[r EXCEPT !.state = IF r.state = "then-done" THEN "resolved" ELSE "failed"]}
    /\ UNCHANGED <<now, robotsPolicyCache, procs, lastWrite, call>>

\* What the await in isAllowedByRobotsTxt yields: the policy the caller got at
\* once, or the one its request resolved to.
awaitedPolicy(pr) ==
    IF pr.wait = 0 THEN pr.got
    ELSE IF resolutionOf(pr.wait).state = "failed" THEN NoPolicy
    ELSE resolutionOf(pr.wait).policy

\* A gate that lets the caller through when the robots.txt fetch failed.
gateResultIgnoringFailure(failed, policy, targetUrl) ==
    IF failed THEN "allowed"
    ELSE IF isAllowedByRobotsTxt(policy, targetUrl) THEN "allowed"
    ELSE "RobotsDenied"

\* How assertExternalDocumentationAccess ends: the rejection of the request
\* propagates, a FALSE of isAllowedByRobotsTxt throws, otherwise it returns.
gateResultOf(failed, policy, targetUrl) ==
    IF failed THEN "FetchFailure"
    ELSE IF isAllowedByRobotsTxt(policy, targetUrl) THEN "allowed"
    ELSE "RobotsDenied"

resumeWith(pr, targetUrl, failed, policy) ==
    continueAfterGate([pr EXCEPT !.wait = 0, !.got = policy], targetUrl,
                      gateResultOf(failed, policy, targetUrl))

\* isAllowedByRobotsTxt after its await, and what follows it in the caller.
resumeAfterRobots(pr, targetUrl) ==
    resumeWith(pr, targetUrl,
               pr.wait # 0 /\ resolutionOf(pr.wait).state = "failed",
               awaitedPolicy(pr))

\* A request awaiting getRobotsPolicy resumes: isAllowedByRobotsTxt decides,
\* assertExternalDocumentationAccess returns or throws, the caller goes on.
ResumeRobots(p) ==
    /\ procs[p].pc = "awaitRobots"
    /\ procs[p].wait # 0 => resolutionOf(procs[p].wait).state \in {"resolved", "failed"}
    /\ \E out \in {resumeAfterRobots(procs[p], parseURL(Targets[procs[p].target]))} :
          apply(p, out)

\* The JSON data endpoint answers.
JsonRespond(p) ==
    /\ procs[p].pc = "awaitJson"
    /\ \E resp \in JsonResponses :
          procs' = [procs EXCEPT ![p] = finish(@, jsonOutcome(resp))]
    /\ UNCHANGED <<now, robotsPolicyCache, robotsPolicyInFlight, resolutions, lastWrite, call>>

\* The JSON fetch rejects (network failure).
JsonFetchFails(p) ==
    /\ procs[p].pc = "awaitJson"
    /\ procs' = [procs EXCEPT ![p] = finish(@, "FetchFailure")]
    /\ UNCHANGED <<now, robotsPolicyCache, robotsPolicyInFlight, resolutions, lastWrite, call>>

\* Time passes.
Tick ==
    /\ now < MaxTime * ClockStep
    /\ now' = now + ClockStep
    /\ UNCHANGED <<robotsPolicyCache, robotsPolicyInFlight, resolutions, procs, lastWrite, call>>

\* The steps of the promises of getRobotsPolicy after the response.
ResolverStep ==
    \/ \E id \in Procs : RobotsFetchFails(id)
    \/ \E id \in Procs : ThenCallback(id)
    \/ \E id \in Procs : FinallyCallback(id)
    \/ \E p \in Procs : ResumeRobots(p)

\* Spec: NumRequests requests through every entry point, within one clock unit.
Next ==
    \/ \E p \in Procs : StartAssert(p)
    \/ \E p \in Procs : StartMarkdown(p)
    \/ \E p \in Procs : StartRoute(p)
    \/ \E id \in Procs : RobotsRespond(id)
    \/ ResolverStep
    \/ \E p \in Procs : JsonRespond(p)
    \/ \E p \in Procs : JsonFetchFails(p)

Spec == Init /\ [][Next]_vars

\* SpecResolver: NumCallers concurrent access checks while time passes.
NextResolver ==
    \/ \E p \in Procs : StartCheck(p)
    \/ \E id \in Procs : RobotsAnswer(id)
    \/ ResolverStep
    \/ Tick

SpecResolver == InitResolver /\ [][NextResolver]_vars

\* SpecCrowd: NumCrowd concurrent access checks within one clock unit.
NextCrowd ==
    \/ \E p \in Procs : StartCheck(p)
    \/ \E id \in Procs : RobotsAnswer(id)
    \/ ResolverStep

SpecCrowd == InitCrowd /\ [][NextCrowd]_vars

\* SpecCache: NumCrowd access checks over more origins than the cache holds.
NextCache ==
    \/ \E p \in Procs : StartAllowlistedCheck(p)
    \/ \E id \in Procs : RobotsAnswer(id)
    \/ ResolverStep

SpecCache == InitCrowd /\ [][NextCache]_vars

\* ------------------------------------------------------------------------
\* Direct calls of the pure functions of policy.ts
\* ------------------------------------------------------------------------

\* URL.hostname values (lower case, IPv6 literals in brackets) of local and
\* private hosts, and of public ones.
PrivateHostnames ==
    { <<"l","o","c","a","l","h","o","s","t">>,
      <<"1","2","7",".","0",".","0",".","1">>,
      <<"[",":",":","1","]">>,
      <<"x",".","l","o","c","a","l">>,
      <<"1","0",".","0",".","0",".","1">>,
      <<"0",".","0",".","0",".","0">>,
      <<"1","6","9",".","2","5","4",".","1",".","1">>,
      <<"1","7","2",".","1","6",".","0",".","1">>,
      <<"1","7","2",".","3","1",".","9",".","9">>,
      <<"1","9","2",".","1","6","8",".","1",".","1">>,
      <<"[","f","c","0","0",":",":","1","]">>,
      <<"[","f","d","1","2",":",":","1","]">>,
      <<"[","f","e","8","0",":",":","1","]">>,
      <<"[","f","e","b","0",":",":","1","]">> }

PublicHostnames ==
    { <<"b",".","c","o">>,
      <<"a",".","b",".","c","o">>,
      <<"a","b",".","c","o">>,
      <<"1",".","2",".","3",".","4">>,
      <<"1","7","2",".","3","2",".","0",".","1">>,
      <<"1","9","2",".","1","6","9",".","1",".","1">>,
      <<"[","2","0","0","1",":","d","b","8",":",":","1","]">> }

\* Raw values of EXTERNAL_DOC_HOST_ALLOWLIST and EXTERNAL_DOC_HOST_BLOCKLIST.
HostLists ==
    { <<>>,
      <<"b",".","c","o">>,
      <<"1","0",".","0",".","0",".","1","\n",".","l","o","c","a","l",","," ","[",":",":","1","]">>,
      <<"a",".","b",".","c","o",",","[","F","E","8","0",":",":","1","]">> }

\* Host names as they are written in a URL, and single patterns of a host list
\* (<<>>: the list is not configured).
HostNames ==
    { <<"b",".","c","o">>, <<"a",".","b",".","c","o">>, <<"a","b",".","c","o">>, <<"A",".","B",".","C","O">>, <<"B",".","c","o">>, <<"c","o">>, <<"x",".","a",".","b",".","c","o">>, <<"b",".","c","o",".","u","k">>,
      <<"f","c",".","c","o">>, <<"f","d","b",".","c","o">>, <<"f","e","8","a",".","c","o">>, <<"F","E","B",".","c","o">>, <<"f","e",".","c","o">>, <<"f",".","c","o">> }

HostPatterns ==
    { <<>>, <<"b",".","c","o">>, <<"B",".","C","O">>, <<".","b",".","c","o">>, <<".","B",".","C","o">>, <<"a",".","b",".","c","o">>, <<"c","o">>, <<".","c","o">>, <<" ","b",".","c","o"," ">>, <<".","u","k">> }

\* The calls assertHostPolicy(targetUrl, env) of SpecCalls.
\* The parts raw URLs are put together from: scheme, userinfo with its "@",
\* host, path and query, fragment with its "#", and a control or white-space
\* character in front or at the end. A raw URL without a scheme has no ":".
UrlParts ==
    {p \in [scheme : {<<"h","t","t","p","s">>, <<"H","T","T","P","S">>, <<"h","t","t","p">>, <<>>},
            userinfo : {<<>>, <<"u","@">>, <<"u",":","p","@">>, <<"@">>},
            host : {HostRoot, <<>>},
            tail : {DocumentationSegment \o <<"/","x">>, <<"?","q">>, <<>>},
            fragment : {<<>>, <<"#">>, <<"#","f">>},
            lead : {<<>>, <<" ">>},
            trail : {<<>>, <<"\n">>, <<"DEL">>}] :
        /\ p.scheme = <<>> => p.userinfo # <<"u",":","p","@">>
        /\ p.lead # <<>> => p.trail = <<>>}

composeUrl(p) ==
    p.lead \o (IF p.scheme = <<>> THEN <<>> ELSE p.scheme \o <<":","/","/">>)
        \o p.userinfo \o p.host \o p.tail \o p.fragment \o p.trail

\* Target strings of up to MaxTargetLen characters, among them characters that
\* encodeURIComponent escapes, a non-ASCII one, a space and a control character.
MaxTargetLen == 3

\* robots.txt files of one or two groups: the first has one agent line and up
\* to MaxRules rules, the second, if any, one agent line and one rule.
MaxRules == 2

\* The text of a robots.txt file with the given groups.
RECURSIVE renderRobots(_)
renderRobots(groups) ==
    LET RECURSIVE renderRules(_)
        renderRules(rules) ==
            IF rules = <<>> THEN <<>>
            ELSE (IF Head(rules).kind = "allow"
                  THEN <<"A","l","l","o","w",":">>
                  ELSE <<"D","i","s","a","l","l","o","w",":">>)
                 \o (IF Head(rules).pattern = <<>> THEN <<>>
                     ELSE <<" ">> \o Head(rules).pattern)
                 \o <<"\n">> \o renderRules(Tail(rules))
    IN  IF groups = <<>> THEN <<>>
        ELSE <<"U","s","e","r","-","a","g","e","n","t",":"," ">> \o Head(groups).agent
                 \o <<"\n">> \o renderRules(Head(groups).rules)
                 \o <<"\n">> \o renderRobots(Tail(groups))

\* The calls of isAllowedByRobotsTxt of SpecEvaluate, on a fetched robots.txt
\* for a path.
EvaluateCalls ==
    LET rules == {[kind |-> k, pattern |-> p] :
                     k \in {"allow", "disallow"},
                     p \in {<<>>, <<"/">>, <<"/","p">>, <<"/","p","$">>, <<"/","*","q">>}}
        agents == {<<"*">>, <<"S","o","s","u","m","i","-","A","I">>,
                   <<"o","t","h","e","r","b","o","t">>}
        first == {[agent |-> a, rules |-> rs] :
                     a \in agents, rs \in UNION {[1..n -> rules] : n \in 1..MaxRules}}
        second == {[agent |-> a, rules |-> <<r>>] : a \in agents, r \in rules}
    IN  {[fn |-> "isAllowedByRobotsTxt", groups |-> f, robotsText |-> renderRobots(f),
          path |-> p, done |-> FALSE, result |-> NONE] :
             f \in {<<g>> : g \in first} \cup {<<g, h>> : g \in first, h \in second},
             p \in {<<"/">>, <<"/","p">>, <<"/","p","/","q">>, <<"/","x">>}}

\* The calls of SpecCalls: assertHostPolicy on a host name and the two lists;
\* validateExternalDocumentationUrl on a composed raw URL;
\* decodeExternalTargetPath on the encoded target strings, on paths with
\* malformed escapes, and on paths without the prefix; the end of
\* fetchExternalDocCJSON on a validated URL whose gate has allowed it, and on
\* a response of the JSON data endpoint.
Calls ==
    {[fn |-> "assertHostPolicy", hostname |-> h, env |-> [allow |-> a, block |-> b],
      done |-> FALSE, result |-> NONE] :
         h \in PrivateHostnames \cup PublicHostnames, a \in HostLists, b \in HostLists}
    \cup {[fn |-> "validateExternalDocumentationUrl", parts |-> p, rawUrl |-> composeUrl(p),
      done |-> FALSE, result |-> NONE] : p \in UrlParts}
    \cup {[fn |-> "decodeExternalTargetPath", form |-> "encoded", target |-> u,
      path |-> EXTERNAL_PATH_PREFIX \o percentEncode(u), done |-> FALSE, result |-> NONE] :
         u \in UNION {[1..n -> {"a", ":", "/", "%", "é", " ", "DEL"}] : n \in 0..MaxTargetLen}}
    \cup {[fn |-> "decodeExternalTargetPath", form |-> "malformed", target |-> <<>>,
           path |-> r, done |-> FALSE, result |-> NONE] :
              r \in { <<"/","e","x","t","e","r","n","a","l","/","%","E","0","%","A","4","%","A">>,
                    <<"/","e","x","t","e","r","n","a","l","/","%">>,
                    <<"/","e","x","t","e","r","n","a","l","/","a","%","2">>,
                    <<"/","e","x","t","e","r","n","a","l","/","%","G","1">>,
                    <<"/","e","x","t","e","r","n","a","l","/","%","C","3">>,
                    <<"/","e","x","t","e","r","n","a","l","/","%","A","9">>,
                    <<"/","e","x","t","e","r","n","a","l","/","%","C","3","a">> }}
    \cup {[fn |-> "decodeExternalTargetPath", form |-> "unprefixed", target |-> <<>>,
           path |-> r, done |-> FALSE, result |-> NONE] :
              r \in { <<"/","d","o","c","u","m","e","n","t","a","t","i","o","n","/","s","w","i","f","t">>,
                    <<"/","e","x","t","e","r","n","a","l","x">>,
                    <<"e","x","t","e","r","n","a","l","/","a">>,
                    <<>> }}
    \cup {[fn |-> "fetchJson", base |-> b, segment |-> g, rest |-> r, slashes |-> t,
           rawUrl |-> HttpsPrefix \o HostRoot \o b \o g \o r \o t \o q,
           done |-> FALSE, result |-> NONE] :
              b \in {<<>>, <<"/","p">>, <<"/","p","/","q">>, <<"/","d","o","c","u","m","e","n","t","a","t","i","o","n","x">>},
              g \in {DocumentationSegment, <<"/","D","o","c","u","m","e","n","t","a","t","i","o","n">>, <<"/","d","o","c">>},
              r \in {<<>>, <<"/","x">>, <<"/","x",".","j","s","o","n">>, <<"/","x","/","y">>, <<"/","x",".","J","S","O","N">>},
              t \in {<<>>, <<"/">>, <<"/","/">>},
              q \in {<<>>, <<"?","q">>}}
    \cup {[fn |-> "jsonOutcome", resp |-> [status |-> st, xRobotsTag |-> x],
           done |-> FALSE, result |-> NONE] :
              st \in {200, 204, 302, 403, 404, 500},
              x \in { <<>>, <<"n","o","n","e">>, <<"N","o","I","n","d","e","x">>, <<"n","o","a","i">>, <<"a","l","l",","," ","N","O","I","M","A","G","E","A","I">>, <<" ","n","o","a","i"," ",",","x">>, <<"i","n","d","e","x",","," ","f","o","l","l","o","w">>, <<"n","o","n","e","x">>, <<"n","o"," ","a","i">>, <<",",",">> }}
    \cup {[fn |-> "assertHostPolicyOfUrl", host |-> h, pattern |-> p, side |-> d,
           done |-> FALSE, result |-> NONE] :
              h \in HostNames, p \in HostPatterns, d \in {"allow", "block"}}

InitCalls ==
    /\ now = 0
    /\ robotsPolicyCache = <<>>
    /\ robotsPolicyInFlight = <<>>
    /\ resolutions = {}
    /\ procs = <<>>
    /\ lastWrite = [origin |-> <<>>, time |-> 0]
    /\ call \in Calls

\* The call returns (or throws) result.
returns(result) ==
    /\ ~call.done
    /\ call' = [call EXCEPT !.done = TRUE, !.result = result]
    /\ UNCHANGED <<now, robotsPolicyCache, robotsPolicyInFlight, resolutions, procs,
                   lastWrite>>

CallAssertHostPolicy ==
    /\ call.fn = "assertHostPolicy"
    /\ returns(assertHostPolicy([hostname |-> call.hostname], call.env))

\* The error validateExternalDocumentationUrl throws, or the URL it returns.
CallValidate ==
    /\ call.fn = "validateExternalDocumentationUrl"
    /\ returns([outcome |-> validateExternalDocumentationUrl(call.rawUrl),
                url |-> parseURL(call.rawUrl)])

CallDecode ==
    /\ call.fn = "decodeExternalTargetPath"
    /\ returns(decodeExternalTargetPath(call.path))

\* SpecCalls: one call of a pure function on one of its inputs.
\* fetchExternalDocCJSON from the return of its gate to the fetch of the JSON.
CallFetchJson ==
    /\ call.fn = "fetchJson"
    /\ returns(fetchJson([IdleProc EXCEPT !.kind = "markdown", !.gate = "allowed"],
                         parseURL(call.rawUrl)))

\* fetchExternalDocCJSON from the arrival of the response of the JSON fetch.
CallJsonOutcome ==
    /\ call.fn = "jsonOutcome"
    /\ returns(jsonOutcome(call.resp))

\* assertHostPolicy on the URL https://<host>/documentation/x, with the pattern as
\* the allowlist or as the blocklist.
CallAssertHostPolicyOfUrl ==
    /\ call.fn = "assertHostPolicyOfUrl"
    /\ returns(assertHostPolicy(
                   parseURL(HttpsPrefix \o call.host \o DocumentationSegment \o <<"/","x">>),
                   IF call.side = "allow" THEN [allow |-> call.pattern, block |-> <<>>]
                   ELSE [allow |-> <<>>, block |-> call.pattern]))

NextCalls ==
    \/ CallAssertHostPolicy
    \/ CallValidate
    \/ CallDecode
    \/ CallFetchJson
    \/ CallJsonOutcome
    \/ CallAssertHostPolicyOfUrl

SpecCalls == InitCalls /\ [][NextCalls]_vars

\* SpecEvaluate: one evaluation of a fetched robots.txt for one path.
InitEvaluate ==
    /\ now = 0
    /\ robotsPolicyCache = <<>>
    /\ robotsPolicyInFlight = <<>>
    /\ resolutions = {}
    /\ procs = <<>>
    /\ lastWrite = [origin |-> <<>>, time |-> 0]
    /\ call \in EvaluateCalls

CallIsAllowedByRobotsTxt ==
    /\ call.fn = "isAllowedByRobotsTxt"
    /\ returns(isAllowedByRobotsTxt([kind |-> "rules", robotsText |-> call.robotsText],
                                    [pathname |-> call.path, search |-> <<>>]))

SpecEvaluate == InitEvaluate /\ [][CallIsAllowedByRobotsTxt]_vars

\* ------------------------------------------------------------------------
\* SpecRender: one call of renderFromJSON on one document
\* ------------------------------------------------------------------------

\* Lists and tables are nested up to MaxBlockNesting levels, emphasis up to
\* MaxInlineNesting levels and the children of the index up to
\* MaxIndexNesting levels: past the caps of the renderer.
MaxBlockNesting == 52

MaxInlineNesting == 22

MaxIndexNesting == 52

\* A document (AppleDocJSON) with none of its properties; nodes holds its
\* content items.
NoDoc ==
    [metadata |-> <<>>, abstract |-> <<>>, primaryContentSections |-> <<>>,
     relationshipsSections |-> <<>>, topicSections |-> <<>>, seeAlsoSections |-> <<>>,
     variants |-> <<>>, references |-> <<>>, interfaceLanguages |-> <<>>,
     nodes |-> <<>>]

LeafText == <<"l","e","a","f">>

textItem(text) == [NoItem EXCEPT !.type = <<"t","e","x","t">>, !.text = <<text>>]

paragraph(inlineContent) ==
    [NoItem EXCEPT !.type = <<"p","a","r","a","g","r","a","p","h">>, !.inlineContent = <<inlineContent>>]

\* A document with one content section, whose content is the items top of nodes.
contentDoc(nodes, top, references) ==
    [NoDoc EXCEPT !.primaryContentSections =
                      <<<<[kind |-> <<"c","o","n","t","e","n","t">>, declarations |-> <<>>,
                           parameters |-> <<>>, content |-> <<top>>]>>>>,
                  !.references = references, !.nodes = nodes]

\* A document whose Swift index has the children top of nodes.
indexDoc(nodes, top) ==
    [NoDoc EXCEPT !.interfaceLanguages =
                      <<[swift |-> <<<<[title |-> <<>>, children |-> <<top>>]>>>>]>>,
                  !.nodes = nodes]

\* The leaf paragraph inside n unordered lists; inside n - 1 lists and a table
\* of one cell; the leaf text inside n emphases; the leaf entry of the index
\* n levels below the top.
nestingDoc(walk, n) ==
    CASE walk = "block" ->
             contentDoc([k \in 1..(n + 2) |->
                            IF k <= n
                            THEN [NoItem EXCEPT !.type = <<"u","n","o","r","d","e","r","e","d","L","i","s","t">>,
                                                !.items = <<<<[content |-> <<<<k + 1>>>>]>>>>]
                            ELSE IF k = n + 1 THEN paragraph(<<n + 2>>)
                            ELSE textItem(LeafText)],
                        <<1>>, <<>>)
      [] walk = "table" ->
             contentDoc([k \in 1..(n + 2) |->
                            IF k < n
                            THEN [NoItem EXCEPT !.type = <<"u","n","o","r","d","e","r","e","d","L","i","s","t">>,
                                                !.items = <<<<[content |-> <<<<k + 1>>>>]>>>>]
                            ELSE IF k = n
                            THEN [NoItem EXCEPT !.type = <<"t","a","b","l","e">>,
                                                !.rows = <<<<<<<<k + 1>>>>>>>>]
                            ELSE IF k = n + 1 THEN paragraph(<<n + 2>>)
                            ELSE textItem(LeafText)],
                        <<1>>, <<>>)
      [] walk = "inline" ->
             contentDoc([k \in 1..(n + 2) |->
                            IF k = 1 THEN paragraph(<<2>>)
                            ELSE IF k <= n + 1
                            THEN [NoItem EXCEPT !.type = <<"e","m","p","h","a","s","i","s">>,
                                                !.inlineContent = <<<<k + 1>>>>]
                            ELSE textItem(LeafText)],
                        <<1>>, <<>>)
      [] walk = "index" ->
             indexDoc([k \in 1..(n + 1) |->
                          IF k <= n
                          THEN [NoItem EXCEPT !.path = <<<<"/","d","o","c","u","m","e","n","t","a","t","i","o","n","/","x">>>>,
                                              !.title = <<<<"X">>>>, !.children = <<<<k + 1>>>>]
                          ELSE [NoItem EXCEPT !.path = <<<<"/","d","o","c","u","m","e","n","t","a","t","i","o","n","/","l","e","a","f">>>>,
                                              !.title = <<LeafText>>]],
                      <<1>>)

section(identifiers) == <<<<[title |-> <<<<"T">>>>, identifiers |-> <<identifiers>>]>>>>

\* A document with one link to identifier in the given place.
linkDoc(place, identifier, references) ==
    CASE place = "inline" ->
             contentDoc(<<paragraph(<<2>>),
                          [NoItem EXCEPT !.type = <<"r","e","f","e","r","e","n","c","e">>,
                                         !.identifier = <<identifier>>]>>,
                        <<1>>, references)
      [] place = "topic" ->
             [NoDoc EXCEPT !.topicSections = section(<<identifier>>),
                           !.references = references]
      [] place = "relationship" ->
             [NoDoc EXCEPT !.relationshipsSections = section(<<identifier>>),
                           !.references = references]
      [] place = "seeAlso" ->
             [NoDoc EXCEPT !.seeAlsoSections = section(<<identifier>>),
                           !.references = references]

\* Documents with missing, empty and unknown-kind fields.
MalformedDocs ==
    << NoDoc,
       [NoDoc EXCEPT !.interfaceLanguages = <<[swift |-> <<<<>>>>]>>],
       [NoDoc EXCEPT !.interfaceLanguages = <<[swift |-> <<>>]>>],
       [NoDoc EXCEPT !.interfaceLanguages =
                         <<[swift |-> <<<<[title |-> <<>>, children |-> <<>>]>>>>]>>],
       indexDoc(<<NoItem, [NoItem EXCEPT !.type = <<"g","r","o","u","p","M","a","r","k","e","r">>],
                  [NoItem EXCEPT !.title = <<<<"X">>>>],
                  [NoItem EXCEPT !.path = <<<<"/","x">>>>, !.title = <<<<"X">>>>,
                                 !.children = <<<<>>>>]>>, <<1, 2, 3, 4>>),
       [NoDoc EXCEPT !.metadata = <<[title |-> <<>>, roleHeading |-> <<>>,
                                     platforms |-> <<>>]>>],
       [NoDoc EXCEPT !.metadata =
                         <<[title |-> <<<<>>>>, roleHeading |-> <<<<>>>>,
                            platforms |-> <<<<[name |-> <<>>, introducedAt |-> <<>>,
                                               beta |-> FALSE]>>>>]>>],
       [NoDoc EXCEPT !.abstract = <<<<>>>>],
       [NoDoc EXCEPT !.abstract = <<<<NoItem, [NoItem EXCEPT !.type = <<"t","e","x","t">>]>>>>],
       [NoDoc EXCEPT !.primaryContentSections = <<<<>>>>],
       [NoDoc EXCEPT !.primaryContentSections =
                         <<<<[kind |-> <<"m","y","s","t","e","r","y">>, declarations |-> <<>>,
                              parameters |-> <<>>, content |-> <<>>],
                             [kind |-> <<"d","e","c","l","a","r","a","t","i","o","n","s">>,
                              declarations |-> <<<<[tokens |-> <<>>],
                                                   [tokens |-> <<<<[text |-> <<>>]>>>>]>>>>,
                              parameters |-> <<>>, content |-> <<>>],
                             [kind |-> <<"p","a","r","a","m","e","t","e","r","s">>, declarations |-> <<>>,
                              parameters |-> <<<<[name |-> <<>>, content |-> <<>>],
                                                 [name |-> <<>>, content |-> <<<<>>>>]>>>>,
                              content |-> <<>>],
                             [kind |-> <<"c","o","n","t","e","n","t">>, declarations |-> <<>>,
                              parameters |-> <<>>, content |-> <<>>]>>>>],
       contentDoc(<<NoItem, [NoItem EXCEPT !.type = <<"m","y","s","t","e","r","y">>],
                    [NoItem EXCEPT !.type = <<"h","e","a","d","i","n","g">>],
                    [NoItem EXCEPT !.type = <<"p","a","r","a","g","r","a","p","h">>],
                    [NoItem EXCEPT !.type = <<"c","o","d","e","L","i","s","t","i","n","g">>],
                    [NoItem EXCEPT !.type = <<"a","s","i","d","e">>],
                    [NoItem EXCEPT !.type = <<"t","a","b","l","e">>],
                    [NoItem EXCEPT !.type = <<"t","a","b","l","e">>, !.rows = <<<<<<>>>>>>],
                    [NoItem EXCEPT !.type = <<"t","a","b","l","e">>, !.rows = <<<<<<<<>>>>>>>>],
                    [NoItem EXCEPT !.type = <<"o","r","d","e","r","e","d","L","i","s","t">>],
                    [NoItem EXCEPT !.type = <<"u","n","o","r","d","e","r","e","d","L","i","s","t">>,
                                   !.items = <<<<[content |-> <<>>]>>>>],
                    [NoItem EXCEPT !.type = <<"o","r","d","e","r","e","d","L","i","s","t">>, !.items = <<<<>>>>]>>,
                  <<1, 2, 3, 4, 5, 6, 7, 8, 9, 10, 11, 12>>, <<>>),
       contentDoc(<<paragraph(<<2, 3, 4, 5, 6, 7, 8, 9, 10>>),
                    NoItem, [NoItem EXCEPT !.type = <<"m","y","s","t","e","r","y">>],
                    [NoItem EXCEPT !.type = <<"t","e","x","t">>],
                    [NoItem EXCEPT !.type = <<"c","o","d","e","V","o","i","c","e">>],
                    [NoItem EXCEPT !.type = <<"r","e","f","e","r","e","n","c","e">>],
                    [NoItem EXCEPT !.type = <<"e","m","p","h","a","s","i","s">>],
                    [NoItem EXCEPT !.type = <<"s","t","r","o","n","g">>, !.inlineContent = <<<<>>>>],
                    [NoItem EXCEPT !.type = <<"i","m","a","g","e">>],
                    [NoItem EXCEPT !.type = <<"i","m","a","g","e">>, !.identifier = <<<<"m","i","s","s","i","n","g">>>>]>>,
                  <<1>>, <<>>),
       linkDoc("inline", <<"d","o","c",":","/","/","c","o","m",".","b","/","m","i","s","s","i","n","g">>, <<>>),
       linkDoc("inline", <<"d","o","c",":","/","/","c","o","m",".","b","/","m","i","s","s","i","n","g">>, <<<<>>>>),
       linkDoc("inline", <<"d","o","c",":","/","/","c","o","m",".","b","/","m","i","s","s","i","n","g">>,
               <<<<[key |-> <<"d","o","c",":","/","/","c","o","m",".","b","/","m","i","s","s","i","n","g">>, value |-> NoReference]>>>>),
       linkDoc("topic", <<"d","o","c",":","/","/","c","o","m",".","b","/","m","i","s","s","i","n","g">>, <<>>),
       linkDoc("relationship", <<>>, <<>>),
       linkDoc("seeAlso", <<"m","i","s","s","i","n","g">>, <<<<>>>>),
       [NoDoc EXCEPT !.topicSections = <<<<[title |-> <<>>, identifiers |-> <<>>],
                                           [title |-> <<<<"T">>>>, identifiers |-> <<>>],
                                           [title |-> <<<<"T">>>>, identifiers |-> <<<<>>>>]>>>>,
                     !.relationshipsSections =
                         <<<<[title |-> <<<<"T">>>>, identifiers |-> <<>>]>>>>,
                     !.seeAlsoSections = <<<<[title |-> <<>>, identifiers |-> <<<<>>>>]>>>>] >>

DocumentationUrl == HttpsPrefix \o HostRoot \o <<"/","d","o","c","u","m","e","n","t","a","t","i","o","n","/","x">>

\* Paths a reference or an entry of the index carries.
LinkPaths ==
    { <<"/","d","o","c","u","m","e","n","t","a","t","i","o","n","/","x","/","y">>, <<"/","d","o","c","u","m","e","n","t","a","t","i","o","n","/","x">>, <<"/","d","o","c","u","m","e","n","t","a","t","i","o","n","/">>, <<"/","d","o","c","u","m","e","n","t","a","t","i","o","n">>,
      <<"/","d","o","c","u","m","e","n","t","a","t","i","o","n","x","/","y">>, <<"/","o","t","h","e","r","/","x">>, <<"/","D","o","c","u","m","e","n","t","a","t","i","o","n","/","x">>, <<"h","t","t","p","s",":","/","/","c",".","c","o","/","d","o","c","u","m","e","n","t","a","t","i","o","n","/","x">> }

ExternalOrigins == { <<>>, <<<<"h","t","t","p","s",":","/","/","b",".","c","o">>>>, <<<<"h","t","t","p","s",":","/","/","b",".","c","o","/","p">>>> }

callOfRender(family, walk, nesting, via, path, resolved, sourceUrl, externalOrigin) ==
    [fn |-> "renderFromJSON", family |-> family, walk |-> walk, nesting |-> nesting,
     via |-> via, path |-> path, resolved |-> resolved, sourceUrl |-> sourceUrl,
     externalOrigin |-> externalOrigin, stack |-> <<>>, done |-> FALSE, result |-> NONE]

\* The documents renderFromJSON is called on, by what they hold: a leaf
\* paragraph or index entry under nesting levels of lists, tables, emphases or
\* index entries; one of MalformedDocs; one link in one of the places the
\* renderer emits links, which goes through a reference with the url path (via
\* <<>>), through the doc:// identifier via \o path, or is the path of an index
\* entry; and source URLs with breadcrumbs. resolved holds the paths the links
\* of the document resolve to.
RenderCalls ==
    {callOfRender("nesting", walk, n, <<>>, <<>>, {}, DocumentationUrl, <<>>) :
         walk \in {"block", "table"}, n \in 0..MaxBlockNesting}
    \cup {callOfRender("nesting", "inline", n, <<>>, <<>>, {}, DocumentationUrl, <<>>) :
              n \in 0..MaxInlineNesting}
    \cup {callOfRender("nesting", "index", n, <<>>, <<>>, {}, DocumentationUrl, <<>>) :
              n \in 0..MaxIndexNesting}
    \cup {callOfRender("malformed", "none", i, <<>>, <<>>, {}, DocumentationUrl, <<>>) :
              i \in 1..Len(MalformedDocs)}
    \cup {callOfRender("link", place, 0, <<>>, path, {path}, DocumentationUrl, origin) :
              place \in {"inline", "topic", "relationship", "seeAlso", "index"},
              path \in LinkPaths, origin \in ExternalOrigins}
    \cup {callOfRender("link", place, 0, bundle, path, {path}, DocumentationUrl, origin) :
              place \in {"inline", "topic", "relationship", "seeAlso"},
              bundle \in {<<"d","o","c",":","/","/","c","o","m",".","b">>, <<"d","o","c",":","/","/","c","o","m",".","a","p","p","l","e",".","S","w","i","f","t","U","I">>, <<"d","o","c",":","/","/","c","o","m",".","a","p","p","l","e",".","u","i","k","i","t">>,
                          <<"d","o","c",":","/","/","c","o","m",".","b","/","p">>},
              path \in {<<"/","d","o","c","u","m","e","n","t","a","t","i","o","n","/","x","/","y">>, <<"/","d","o","c","u","m","e","n","t","a","t","i","o","n","/","x">>},
              origin \in ExternalOrigins}
    \cup {callOfRender("link", "breadcrumb", 0, <<>>, crumbs.path, crumbs.resolved,
                     HttpsPrefix \o HostRoot \o crumbs.path, origin) :
              crumbs \in {[path |-> <<"/","d","o","c","u","m","e","n","t","a","t","i","o","n","/","x">>, resolved |-> {}],
                          [path |-> <<"/","d","o","c","u","m","e","n","t","a","t","i","o","n","/","x","/","y">>, resolved |-> {<<"/","d","o","c","u","m","e","n","t","a","t","i","o","n","/","x">>}],
                          [path |-> <<"/","p","/","d","o","c","u","m","e","n","t","a","t","i","o","n","/","x","/","y","/","z">>,
                           resolved |-> {<<"/","d","o","c","u","m","e","n","t","a","t","i","o","n","/","x">>, <<"/","d","o","c","u","m","e","n","t","a","t","i","o","n","/","x","/","y">>}]},
              origin \in ExternalOrigins}

\* The document of a call.
documentOf(c) ==
    CASE c.family = "malformed" -> MalformedDocs[c.nesting]
      [] c.family = "nesting" -> nestingDoc(c.walk, c.nesting)
      [] c.family = "link" /\ c.walk = "breadcrumb" -> NoDoc
      [] c.family = "link" /\ c.walk = "index" ->
             indexDoc(<<[NoItem EXCEPT !.path = <<c.path>>, !.title = <<<<"X">>>>]>>, <<1>>)
      [] c.family = "link" /\ c.walk \notin {"breadcrumb", "index"} /\ c.via = <<>> ->
             linkDoc(c.walk, <<"d","o","c",":","/","/","c","o","m",".","b","/","r">>,
                     <<<<[key |-> <<"d","o","c",":","/","/","c","o","m",".","b","/","r">>,
                          value |-> [NoReference EXCEPT !.url = <<c.path>>]]>>>>)
      [] OTHER -> linkDoc(c.walk, c.via \o c.path, <<>>)

InitRender ==
    /\ now = 0
    /\ robotsPolicyCache = <<>>
    /\ robotsPolicyInFlight = <<>>
    /\ resolutions = {}
    /\ procs = <<>>
    /\ lastWrite = [origin |-> <<>>, time |-> 0]
    /\ call \in RenderCalls

\* The activation of a call of a walk: the item its loop is at (i, from 1),
\* what the recursive calls of this iteration returned (results), and its
\* markdown so far (out). The activation of renderFromJSON itself is the walk
\* "document" at the bottom of the stack.
activation(c) == [walk |-> c.walk, items |-> c.items, depth |-> c.depth, i |-> 1,
                  results |-> <<>>, out |-> <<>>]

\* The recursive calls the top activation makes before its next step.
callsOfTop(top) ==
    CASE top.walk = "document" -> documentCalls(documentOf(call))
      [] top.walk # "document" /\ top.i <= Len(top.items) ->
             recursiveCalls(top.walk, documentOf(call).nodes[top.items[top.i]], top.depth)
      [] OTHER -> <<>>

renderStep(stack) ==
    /\ call' = [call EXCEPT !.stack = stack]
    /\ UNCHANGED <<now, robotsPolicyCache, robotsPolicyInFlight, resolutions, procs,
                   lastWrite>>

\* renderFromJSON is called.
CallRenderFromJSON ==
    /\ call.fn = "renderFromJSON"
    /\ ~call.done
    /\ call.stack = <<>>
    /\ renderStep(<<activation(renderCall("document", <<>>, 0))>>)

\* The top activation makes its next recursive call, which passes its first
\* statement and starts its loop.
RenderDescend ==
    /\ call.fn = "renderFromJSON"
    /\ call.stack # <<>>
    /\ \E top \in {call.stack[Len(call.stack)]} :
           /\ Len(top.results) < Len(callsOfTop(top))
           /\ ~returnsPlaceholder(callsOfTop(top)[Len(top.results) + 1])
           /\ renderStep(Append(call.stack,
                                activation(callsOfTop(top)[Len(top.results) + 1])))

\* The top activation makes its next recursive call, which returns its
\* placeholder at once.
RenderPlaceholder ==
    /\ call.fn = "renderFromJSON"
    /\ call.stack # <<>>
    /\ \E top \in {call.stack[Len(call.stack)]} :
           /\ Len(top.results) < Len(callsOfTop(top))
           /\ returnsPlaceholder(callsOfTop(top)[Len(top.results) + 1])
           /\ renderStep([call.stack EXCEPT ![Len(call.stack)].results =
                              Append(@, placeholderOf(callsOfTop(top)[Len(top.results) + 1]))])

\* The recursive calls of the iteration have returned: the loop of the top
\* activation adds the markdown of its item and moves on.
RenderItem ==
    /\ call.fn = "renderFromJSON"
    /\ call.stack # <<>>
    /\ \E top \in {call.stack[Len(call.stack)]} :
           /\ top.walk # "document"
           /\ top.i <= Len(top.items)
           /\ Len(top.results) = Len(callsOfTop(top))
           /\ renderStep([call.stack EXCEPT
                  ![Len(call.stack)] =
                      [top EXCEPT !.i = @ + 1, !.results = <<>>,
                                  !.out = @ \o renderItem(top.walk,
                                                          documentOf(call).nodes[top.items[top.i]],
                                                          top.i, top.depth, top.results,
                                                          documentOf(call).references,
                                                          call.externalOrigin)]])

\* The loop of the top activation is over: it returns its markdown to its caller.
RenderReturn ==
    /\ call.fn = "renderFromJSON"
    /\ Len(call.stack) > 1
    /\ \E top \in {call.stack[Len(call.stack)]} :
           /\ top.walk # "document"
           /\ top.i > Len(top.items)
           /\ renderStep([SubSeq(call.stack, 1, Len(call.stack) - 1) EXCEPT
                  ![Len(call.stack) - 1].results = Append(@, top.out)])

\* The walks renderFromJSON called have returned: it returns (or throws).
RenderFinish ==
    /\ call.fn = "renderFromJSON"
    /\ Len(call.stack) = 1
    /\ Len(call.stack[1].results) = Len(documentCalls(documentOf(call)))
    /\ call' = [call EXCEPT !.stack = <<>>, !.done = TRUE,
                            !.result = renderFromJSON(documentOf(call), call.sourceUrl,
                                                      call.externalOrigin,
                                                      call.stack[1].results)]
    /\ UNCHANGED <<now, robotsPolicyCache, robotsPolicyInFlight, resolutions, procs,
                   lastWrite>>

NextRender ==
    \/ CallRenderFromJSON
    \/ RenderDescend
    \/ RenderPlaceholder
    \/ RenderItem
    \/ RenderReturn
    \/ RenderFinish

SpecRender == InitRender /\ [][NextRender]_vars

\* ------------------------------------------------------------------------
\* Properties
\* ------------------------------------------------------------------------

\* The fetches of one type a request has issued, in order.
issued(pr, type) == SelectSeq(pr.calls, LAMBDA c : c.type = type)

targetOrigin(pr) == originOf(parseURL(Targets[pr.target]))

\* The step in which request p enters the program.
Starts(p) == procs[p].pc = "idle" /\ procs'[p].pc # "idle"

\* The step in which request p calls getRobotsPolicy for the first time.
StartsResolution(p) == Starts(p) /\ procs'[p].via # NONE

GateErrors == HostPolicyErrors \cup {"RobotsDenied"}

FiveMinutesMs == 5 * 60 * 1000

\* The host of an https origin, its labels, and the robots.txt URL of the
\* two-label root domain above it.
hostOfOrigin(origin) == slice(origin, Len(HttpsPrefix) + 1, Len(origin))

hostLabels(origin) == splitOn(hostOfOrigin(origin), {"."})

rootRobotsUrl(origin) ==
    LET labels == hostLabels(origin)
        n == Len(labels)
    IN  HttpsPrefix \o labels[n - 1] \o <<".">> \o labels[n] \o RobotsTxtPath

\* The robots.txt fetch of resolution r has been answered with one of statuses.
answeredWith(r, statuses) ==
    r.state \in {"fulfilled", "then-done", "resolved"} /\ r.status \in statuses

\* C1: the JSON data endpoint is fetched only after the access gate returned
\* allowed for the target: a request that has issued the JSON fetch has an
\* allowed gate (the second one, for a route), issued it once and as its last
\* call; a request whose gate raised HostBlocked, HostNotAllowlisted,
\* PrivateHostBlocked or RobotsDenied is over and has issued no JSON fetch.
C1_JsonOnlyAfterGate ==
    \A p \in Procs :
        LET pr == procs[p]
        IN  /\ issued(pr, "json") # <<>> =>
                  /\ pr.gate = "allowed"
                  /\ pr.pc \in {"awaitJson", "done"}
                  /\ pr.kind = "route" => pr.stage = 2
                  /\ Len(issued(pr, "json")) = 1
                  /\ pr.calls[Len(pr.calls)].type = "json"
            /\ pr.gate \in GateErrors =>
                  /\ issued(pr, "json") = <<>>
                  /\ pr.pc = "done"
                  /\ pr.outcome = pr.gate

\* A request that fetched robots.txt, passed the gate and issued the JSON fetch.
C1_Witness ==
    \E p \in Procs :
        /\ procs[p].pc = "awaitJson"
        /\ procs[p].gate = "allowed"
        /\ Len(procs[p].calls) = 2
        /\ procs[p].calls[1].type = "robots"
        /\ procs[p].calls[2].type = "json"

\* C2: assertExternalDocumentationAccess and fetchExternalDocumentationMarkdown
\* fail on a host the host policy rejects without a single fetch: the request
\* is over with the host policy's error and has issued no robots.txt and no
\* JSON request, nor consulted the robots resolver.
C2_HostPolicyBeforeNetwork ==
    \A p \in Procs :
        LET pr == procs[p]
        IN  (pr.kind \in {"assert", "markdown"} /\ pr.gate \in HostPolicyErrors) =>
                /\ pr.calls = <<>>
                /\ pr.via = NONE
                /\ pr.pc = "done"
                /\ pr.outcome = pr.gate

\* fetchExternalDocumentationMarkdown rejected a private host without a fetch.
C2_Witness ==
    \E p \in Procs :
        /\ procs[p].kind = "markdown"
        /\ procs[p].gate = "PrivateHostBlocked"
        /\ procs[p].pc = "done"
        /\ procs[p].calls = <<>>
        /\ resolutions = {}

\* C3: single-flight: no origin has two robots.txt fetches outstanding at the
\* same time, whatever the interleaving and however many other origins are in
\* flight.
C3_SingleFlight ==
    \A r1, r2 \in resolutions :
        (r1.origin = r2.origin /\ r1.state = "fetching" /\ r2.state = "fetching")
            => r1.id = r2.id

\* C4: an access check for an origin that starts within the TTL window of the
\* latest cache write for that origin (the one a previous check's fetch made)
\* is answered from the cache: it gets the cached policy at once and no
\* robots.txt fetch is issued, so the two checks share one fetch.
C4_SecondCheckFromCache ==
    [][\A p \in Procs :
          (/\ StartsResolution(p)
           /\ lastWrite.origin = targetOrigin(procs'[p])
           /\ now < lastWrite.time + FiveMinutesMs)
          => /\ procs'[p].via = "cache"
             /\ procs'[p].wait = 0
             /\ procs'[p].calls = <<>>
             /\ mapHas(robotsPolicyCache, lastWrite.origin)
             /\ procs'[p].got =
                    robotsPolicyCache[mapIndex(robotsPolicyCache, lastWrite.origin)].value.policy
             /\ \A r \in resolutions' : r.state = "fetching" => r \in resolutions
             /\ robotsPolicyInFlight' = robotsPolicyInFlight]_vars

\* Two checks of one origin are over: one fetched robots.txt, the other was
\* answered from the cache with the same policy.
C4_Witness ==
    \E p, q \in Procs :
        /\ p # q
        /\ procs[p].pc = "done" /\ procs[q].pc = "done"
        /\ targetOrigin(procs[p]) = targetOrigin(procs[q])
        /\ procs[q].via = "fetch" /\ Len(procs[q].calls) = 1
        /\ procs[p].via = "cache" /\ procs[p].calls = <<>>
        /\ procs[p].got = procs[q].got
        /\ procs[p].got.kind # NONE

\* C5: no expired cache entry answers a resolution. A call of getRobotsPolicy
\* at time now is answered from the cache exactly if the origin's entry has
\* expiresAt > now, and then with that entry's policy; the call leaves no entry
\* with expiresAt <= now in the cache and removes no other; where the entry is
\* absent or expired and no fetch is in flight, the call issues a new fetch;
\* and the completion of a fetch writes the origin's entry with expiresAt =
\* completion time + 5 minutes.
C5_NoExpiredRead ==
    [][/\ \A p \in Procs :
             StartsResolution(p) =>
                 LET o == targetOrigin(procs'[p])
                     ci == mapIndex(robotsPolicyCache, o)
                     live == ci # 0 /\ robotsPolicyCache[ci].value.expiresAt > now
                 IN  /\ (procs'[p].via = "cache") <=> live
                     /\ live => procs'[p].got = robotsPolicyCache[ci].value.policy
                     /\ \A i \in 1..Len(robotsPolicyCache') :
                            robotsPolicyCache'[i].value.expiresAt > now
                     /\ \A i \in 1..Len(robotsPolicyCache) :
                            robotsPolicyCache[i].value.expiresAt > now
                                => robotsPolicyCache[i] \in SeqToSet(robotsPolicyCache')
                     /\ (~live /\ ~mapHas(robotsPolicyInFlight, o)) =>
                            /\ procs'[p].via = "fetch"
                            /\ \E r \in resolutions' \ resolutions :
                                   r.origin = o /\ r.state = "fetching"
       /\ \A r \in resolutions :
             (/\ r.state = "fulfilled"
              /\ \E r2 \in resolutions' : r2.id = r.id /\ r2.state = "then-done")
             => /\ mapHas(robotsPolicyCache', r.origin)
                /\ robotsPolicyCache'[mapIndex(robotsPolicyCache', r.origin)].value
                       = [expiresAt |-> now + FiveMinutesMs, policy |-> r.policy]]_vars

\* Two checks of one origin each fetched robots.txt and got a policy, the
\* second after the first one's entry had expired, and the entry is refreshed.
C5_Witness ==
    \E p, q \in Procs :
        /\ p # q
        /\ procs[p].pc = "done" /\ procs[q].pc = "done"
        /\ targetOrigin(procs[p]) = targetOrigin(procs[q])
        /\ procs[p].via = "fetch" /\ procs[q].via = "fetch"
        /\ procs[p].got.kind # NONE /\ procs[q].got.kind # NONE
        /\ lastWrite.origin = targetOrigin(procs[p])
        /\ lastWrite.time >= FiveMinutesMs
        /\ mapHas(robotsPolicyCache, lastWrite.origin)
        /\ robotsPolicyCache[mapIndex(robotsPolicyCache, lastWrite.origin)].value.expiresAt
               = lastWrite.time + FiveMinutesMs

\* C6: the in-flight marker of an origin goes when its resolution completes,
\* by success or by failure: every marker in robotsPolicyInFlight belongs to a
\* resolution of that origin that has not completed, and no completed
\* resolution has left its marker behind.
C6_InFlightReleased ==
    /\ \A i \in 1..Len(robotsPolicyInFlight) :
          \E r \in resolutions :
              /\ r.id = robotsPolicyInFlight[i].value
              /\ r.origin = robotsPolicyInFlight[i].key
              /\ r.state \in Unsettled
    /\ \A r \in resolutions :
          r.state \in {"resolved", "failed"} =>
              \A i \in 1..Len(robotsPolicyInFlight) : robotsPolicyInFlight[i].value # r.id

\* After a check whose robots.txt fetch failed, a later check of the same
\* origin started a new fetch, and no marker is left for the origin.
C6_Witness ==
    \E p, q \in Procs :
        /\ p # q
        /\ procs[q].pc = "done" /\ procs[q].gate = "FetchFailure"
        /\ procs[p].pc = "done" /\ procs[p].via = "fetch" /\ procs[p].gate = "allowed"
        /\ targetOrigin(procs[p]) = targetOrigin(procs[q])
        /\ ~mapHas(robotsPolicyInFlight, targetOrigin(procs[p]))

\* C7: parent-domain fallback: a resolution whose robots.txt fetch was
\* answered 404 or 410, for an origin whose host has more than two labels,
\* has gone on to request the parent domain's robots.txt.
C7_ParentFallback ==
    \A r \in resolutions :
        (answeredWith(r, {404, 410}) /\ Len(hostLabels(r.origin)) > 2) =>
            \E i \in 1..Len(r.requested) : r.requested[i] = rootRobotsUrl(r.origin)

\* C8: a robots.txt fetch answered 403 or 404 for the subdomain host is
\* followed by exactly one more fetch, of the root domain's /robots.txt: the
\* resolution has requested these two URLs, in this order.
C8_RootFallbackFetches ==
    \A r \in resolutions :
        (answeredWith(r, {403, 404}) /\ hostOfOrigin(r.origin) = HostSub) =>
            r.requested = << HttpsPrefix \o HostSub \o RobotsTxtPath,
                             HttpsPrefix \o HostRoot \o RobotsTxtPath >>

C10_FailOpen ==
    /\ \A r \in resolutions :
          (r.state # "fetching" /\ r.status \notin {200, 401, 403, 404, 410})
              => r.policy.kind = "allow-all"
    /\ \A p \in Procs : procs[p].gate # "FetchFailure"

\* The .then callback of resolution r runs in this step.
Writes(r) ==
    /\ r \in resolutions
    /\ r.state = "fulfilled"
    /\ \E r2 \in resolutions' : r2.id = r.id /\ r2.state = "then-done"

\* C11: the robots policy cache never holds more than
\* ROBOTS_CACHE_MAX_ENTRIES entries; a write that would exceed the maximum
\* removes the oldest-inserted entries first (the cache after it is the end
\* of the cache with the entry written, in insertion order, cut to the
\* maximum), and the entry just written stays, with its policy.
C11_CacheBounded ==
    [][ /\ Len(robotsPolicyCache') <= ROBOTS_CACHE_MAX_ENTRIES
        /\ \A r \in resolutions :
              Writes(r) =>
                 LET written == mapSet(robotsPolicyCache, r.origin,
                                       [expiresAt |-> now + FiveMinutesMs,
                                        policy |-> r.policy])
                     excess == IF Len(written) > ROBOTS_CACHE_MAX_ENTRIES
                               THEN Len(written) - ROBOTS_CACHE_MAX_ENTRIES
                               ELSE 0
                 IN  /\ robotsPolicyCache' = SubSeq(written, excess + 1, Len(written))
                     /\ mapHas(robotsPolicyCache', r.origin)
                     /\ robotsPolicyCache'[mapIndex(robotsPolicyCache', r.origin)].value.policy
                            = r.policy
      ]_vars

\* The cache is full, holds the origin written last, and has lost the entry
\* of an origin whose write came before.
C11_Witness ==
    /\ Len(robotsPolicyCache) = ROBOTS_CACHE_MAX_ENTRIES
    /\ mapHas(robotsPolicyCache, lastWrite.origin)
    /\ \E r \in resolutions :
          /\ r.state = "then-done"
          /\ ~mapHas(robotsPolicyCache, r.origin)

\* The labels of a host name or of a host pattern.
labelsOf(host) == splitOn(host, {"."})

\* labels is the end of the labels of host.
endsWithLabels(host, labels) ==
    /\ Len(labels) <= Len(labelsOf(host))
    /\ SubSeq(labelsOf(host), Len(labelsOf(host)) - Len(labels) + 1, Len(labelsOf(host)))
          = labels

\* Host h matches pattern p: a bare pattern matches the host itself and its
\* subdomains, a dot-prefixed one the subdomains only.
matchesPattern(h, p) ==
    IF Head(p) = "."
    THEN endsWithLabels(h, labelsOf(Tail(p))) /\ Len(labelsOf(h)) > Len(labelsOf(Tail(p)))
    ELSE endsWithLabels(h, labelsOf(p))

\* Host h matches one of the patterns of the raw list.
matchesList(h, rawList) == \E p \in parseHostList(rawList) : matchesPattern(h, p)

\* An assertHostPolicy call that has returned.
HostPolicyDone == call.fn = "assertHostPolicy" /\ call.done

\* C12: a host that matches the blocklist is denied with HostBlocked, also
\* when it matches the allowlist.
C12_BlocklistWins ==
    (HostPolicyDone /\ matchesList(call.hostname, call.env.block))
        => call.result = "HostBlocked"

\* A host on both lists was denied with HostBlocked.
C12_Witness ==
    /\ HostPolicyDone
    /\ matchesList(call.hostname, call.env.block)
    /\ matchesList(call.hostname, call.env.allow)
    /\ call.result = "HostBlocked"


\* No pattern is configured in the raw list.
emptyList(rawList) == parseHostList(rawList) = {}

\* C13 as stated: a local or private host is denied with PrivateHostBlocked
\* unless it matches the allowlist, and allowed if it matches the allowlist and
\* not the blocklist.
C13_PrivateHostBlocked ==
    (HostPolicyDone /\ call.hostname \in PrivateHostnames) =>
        IF matchesList(call.hostname, call.env.allow)
        THEN (~matchesList(call.hostname, call.env.block) => call.result = "allowed")
        ELSE call.result = "PrivateHostBlocked"

\* C13, amended: a local or private host is allowed exactly if it matches the
\* allowlist and not the blocklist; otherwise it is denied, with HostBlocked
\* if it matches the blocklist, else with HostNotAllowlisted if a non-empty
\* allowlist does not match it, else (no allowlist) with PrivateHostBlocked.
C13_PrivateDenied ==
    (HostPolicyDone /\ call.hostname \in PrivateHostnames) =>
        call.result =
            IF matchesList(call.hostname, call.env.block) THEN "HostBlocked"
            ELSE IF matchesList(call.hostname, call.env.allow) THEN "allowed"
            ELSE IF ~emptyList(call.env.allow) THEN "HostNotAllowlisted"
            ELSE "PrivateHostBlocked"

\* A private IPv6 literal was denied with PrivateHostBlocked under empty lists.
C13_Witness ==
    /\ HostPolicyDone
    /\ call.hostname = <<"[","f","e","8","0",":",":","1","]">>
    /\ emptyList(call.env.allow)
    /\ emptyList(call.env.block)
    /\ call.result = "PrivateHostBlocked"

\* C14: the host policy yields the first applicable outcome in the order
\* HostBlocked (the host matches the blocklist), HostNotAllowlisted (the
\* allowlist is non-empty and the host does not match it, private or not),
\* PrivateHostBlocked (the host is local or private), else allowed; with an
\* empty allowlist no host gets HostNotAllowlisted.
C14_FirstApplicableOutcome ==
    HostPolicyDone =>
        /\ call.result =
              IF matchesList(call.hostname, call.env.block) THEN "HostBlocked"
              ELSE IF ~emptyList(call.env.allow)
                      /\ ~matchesList(call.hostname, call.env.allow)
                   THEN "HostNotAllowlisted"
              ELSE IF call.hostname \in PrivateHostnames
                      /\ ~matchesList(call.hostname, call.env.allow)
                   THEN "PrivateHostBlocked"
              ELSE "allowed"
        /\ emptyList(call.env.allow) => call.result # "HostNotAllowlisted"

\* A private host outside a non-empty allowlist got HostNotAllowlisted.
C14_Witness ==
    /\ HostPolicyDone
    /\ call.hostname \in PrivateHostnames
    /\ ~emptyList(call.env.allow)
    /\ ~matchesList(call.hostname, call.env.allow)
    /\ ~matchesList(call.hostname, call.env.block)
    /\ call.result = "HostNotAllowlisted"


\* A validateExternalDocumentationUrl call that has returned.
ValidateDone == call.fn = "validateExternalDocumentationUrl" /\ call.done

\* What is wrong with a raw URL put together from parts p, as the errors that
\* name it: empty, a control or white-space character, no scheme or no host
\* (unparseable); a scheme other than https; a user name or password; a
\* non-empty fragment.
faultsOf(p) ==
    (IF \/ composeUrl(p) = <<>>
        \/ p.lead # <<>> \/ p.trail # <<>>
        \/ p.scheme = <<>> \/ p.host = <<>>
     THEN {"InvalidURL"} ELSE {})
    \cup (IF p.scheme # <<>> /\ toLowerCase(p.scheme) # <<"h","t","t","p","s">>
          THEN {"UnsupportedScheme"} ELSE {})
    \cup (IF p.userinfo \notin {<<>>, <<"@">>} THEN {"CredentialedURL"} ELSE {})
    \cup (IF Len(p.fragment) > 1 THEN {"FragmentNotSupported"} ELSE {})

DecodeDone == call.fn = "decodeExternalTargetPath" /\ call.done

\* u has an ASCII control character or white space.
hasControlOrSpace(u) == \E i \in 1..Len(u) : u[i] \in {"NUL", "\t", "\n", "\r", " ", "DEL"}

\* C16: decodeExternalTargetPath returns u for the path "/external/" followed
\* by the percent-encoding of u, for every non-empty u without ASCII control
\* character or white space; it rejects with InvalidURL a path without the
\* prefix, an empty payload, a malformed escape and a payload that decodes to
\* a string with a control character or white space, and never returns such
\* a string.
C16_DecodeRoundTrip ==
    DecodeDone =>
        /\ call.form = "encoded" =>
              IF call.target # <<>> /\ ~hasControlOrSpace(call.target)
              THEN call.result = [outcome |-> "ok", value |-> call.target]
              ELSE call.result.outcome = "InvalidURL"
        /\ call.form \in {"malformed", "unprefixed"} => call.result.outcome = "InvalidURL"
        /\ call.result.outcome = "ok" =>
              call.result.value # <<>> /\ ~hasControlOrSpace(call.result.value)

\* A target with an escaped ":", an escaped "%" and a two-byte character came
\* back as it was.
C16_Witness ==
    /\ DecodeDone
    /\ call.form = "encoded"
    /\ call.target = <<":", "%", "é">>
    /\ call.path = EXTERNAL_PATH_PREFIX \o <<"%","3","A","%","2","5","%","C","3","%","A","9">>
    /\ call.result = [outcome |-> "ok", value |-> call.target]


\* An isAllowedByRobotsTxt call that has returned.
EvaluateDone == call.fn = "isAllowedByRobotsTxt" /\ call.done

\* The group is addressed to every agent or to this system's agent.
appliesToSosumi(group) == group.agent \in {<<"*">>, <<"S","o","s","u","m","i","-","A","I">>}

\* The pattern matches a leading part of the path, "*" standing for any run
\* of characters and a final "$" for the end of the path.
RECURSIVE matchesPath(_, _)
matchesPath(pattern, path) ==
    IF pattern = <<>> THEN TRUE
    ELSE IF pattern = <<"$">> THEN path = <<>>
    ELSE IF Head(pattern) = "*"
    THEN \E n \in 0..Len(path) : matchesPath(Tail(pattern), SubSeq(path, n + 1, Len(path)))
    ELSE path # <<>> /\ Head(path) = Head(pattern) /\ matchesPath(Tail(pattern), Tail(path))

\* The length of a pattern, its end anchor not counted.
patternLength(pattern) ==
    IF pattern # <<>> /\ pattern[Len(pattern)] = "$" THEN Len(pattern) - 1 ELSE Len(pattern)

\* The rules of the given groups that match the path.
matchingRules(groups, path) ==
    {r \in UNION {{g.rules[i] : i \in 1..Len(g.rules)} : g \in groups} :
        matchesPath(r.pattern, path)}

\* The outcome the longest matching rule of the groups gives, Allow winning
\* among the longest; allowed if no rule matches.
longestMatchAllows(groups, path) ==
    \/ matchingRules(groups, path) = {}
    \/ \E r \in matchingRules(groups, path) :
           /\ r.kind = "allow"
           /\ \A q \in matchingRules(groups, path) :
                  patternLength(q.pattern) <= patternLength(r.pattern)

\* The groups of the call's robots.txt that apply to this system's agent.
applicableGroups == {g \in {call.groups[i] : i \in 1..Len(call.groups)} : appliesToSosumi(g)}

\* No rule of the given groups has an empty pattern.
withoutEmptyPattern(groups) ==
    \A g \in groups : \A i \in 1..Len(g.rules) : g.rules[i].pattern # <<>>

onlyEmptyDisallow ==
    /\ applicableGroups # {}
    /\ \A g \in applicableGroups : \A i \in 1..Len(g.rules) :
           g.rules[i] = [kind |-> "disallow", pattern |-> <<>>]

\* C18: a robots.txt whose applicable group contains only "Disallow:" with an
\* empty value allows every path.
C18_EmptyDisallowAllows ==
    (EvaluateDone /\ onlyEmptyDisallow) => call.result = TRUE

\* The rule { Disallow: / , Allow: <empty> } in either order.
denyRootWithEmptyAllow(rules) ==
    /\ Len(rules) = 2
    /\ {rules[1], rules[2]} = {[kind |-> "disallow", pattern |-> <<"/">>],
                               [kind |-> "allow", pattern |-> <<>>]}

\* C19: a group with "Disallow: /" and an "Allow:" with an empty value, which
\* is the only group that applies, denies every path, the root included.
C19_EmptyAllowDoesNotOverride ==
    (/\ EvaluateDone
     /\ \E g \in applicableGroups :
            applicableGroups = {g} /\ denyRootWithEmptyAllow(g.rules))
        => call.result = FALSE

\* The root was denied by the robots.txt of the test: Allow: (empty) followed
\* by Disallow: /.
C19_Witness ==
    /\ EvaluateDone
    /\ call.groups = <<[agent |-> <<"*">>,
                        rules |-> <<[kind |-> "allow", pattern |-> <<>>],
                                    [kind |-> "disallow", pattern |-> <<"/">>]>>]>>
    /\ call.robotsText = <<"U","s","e","r","-","a","g","e","n","t",":"," ","*","\n","A","l","l","o","w",":","\n","D","i","s","a","l","l","o","w",":"," ","/","\n","\n">>
    /\ call.path = <<"/">>
    /\ call.result = FALSE

\* The file has a group for every agent and a group naming this system's
\* agent, in either order, without empty patterns.
wildcardAndSpecific ==
    /\ Len(call.groups) = 2
    /\ {call.groups[1].agent, call.groups[2].agent} = {<<"*">>, <<"S","o","s","u","m","i","-","A","I">>}
    /\ withoutEmptyPattern(applicableGroups)

\* C20: with a wildcard group and a group naming this system's agent, the
\* outcome for every path is the one the rules of the specific group give
\* alone.
C20_SpecificGroupAlone ==
    (EvaluateDone /\ wildcardAndSpecific) =>
        call.result = longestMatchAllows({g \in applicableGroups : g.agent # <<"*">>},
                                         call.path)


\* A fetchJson call that has returned.
FetchJsonDone == call.fn = "fetchJson" /\ call.done

\* The path of the call has a /documentation segment.
hasDocumentationSegment == call.segment = <<"/","d","o","c","u","m","e","n","t","a","t","i","o","n">>

\* C21: for a path <base>/documentation<rest>, trailing slashes ignored, the
\* JSON fetch goes to <origin><base>/data/documentation<rest>.json, ".json"
\* being appended only if the path does not end in it already; a path without
\* a /documentation segment is rejected (400) and no JSON is fetched.
C21_JsonDataUrl ==
    FetchJsonDone =>
        IF hasDocumentationSegment
        THEN /\ call.result.pc = "awaitJson"
             /\ call.result.calls =
                    <<[type |-> "json",
                       url |-> HttpsPrefix \o HostRoot \o call.base \o <<"/","d","a","t","a">>
                                 \o <<"/","d","o","c","u","m","e","n","t","a","t","i","o","n">> \o call.rest
                                 \o (IF Len(call.rest) >= 5
                                        /\ SubSeq(call.rest, Len(call.rest) - 4, Len(call.rest))
                                             = <<".","j","s","o","n">>
                                     THEN <<>> ELSE <<".","j","s","o","n">>)]>>
        ELSE /\ call.result.pc = "done"
             /\ call.result.outcome = "NotDocumentationPath"
             /\ call.result.calls = <<>>

\* The JSON of /p/q/documentation/x.json// was fetched from
\* /p/q/data/documentation/x.json.
C21_Witness ==
    /\ FetchJsonDone
    /\ call.rawUrl = <<"h","t","t","p","s",":","/","/","b",".","c","o","/","p","/","q","/","d","o","c","u","m","e","n","t","a","t","i","o","n","/","x",".","j","s","o","n","/","/">>
    /\ call.result.calls = <<[type |-> "json", url |-> <<"h","t","t","p","s",":","/","/","b",".","c","o","/","p","/","q","/","d","a","t","a","/","d","o","c","u","m","e","n","t","a","t","i","o","n","/","x",".","j","s","o","n">>]>>

\* A jsonOutcome call that has returned.
JsonOutcomeDone == call.fn = "jsonOutcome" /\ call.done

\* The header has one of the restrictive tokens among its comma-separated
\* values, in any case.
restrictiveHeader ==
    call.resp.xRobotsTag \in {<<"n","o","n","e">>, <<"N","o","I","n","d","e","x">>, <<"n","o","a","i">>, <<"a","l","l",","," ","N","O","I","M","A","G","E","A","I">>, <<" ","n","o","a","i"," ",",","x">>}

\* C22: a response whose X-Robots-Tag has one of none, noindex, noai,
\* noimageai (in any case) is rejected with AccessDenied; otherwise a 404 is
\* rejected with NotFound, any other non-success status with a fetch failure,
\* and only a success response gives the content.
C22_XRobotsTagThenStatus ==
    JsonOutcomeDone =>
        call.result =
            IF restrictiveHeader THEN "AccessDenied"
            ELSE IF call.resp.status = 404 THEN "NotFound"
            ELSE IF call.resp.status \in {200, 204} THEN "rendered"
            ELSE "FetchFailure"

\* A 404 response with a restrictive header was rejected with AccessDenied.
C22_Witness ==
    /\ JsonOutcomeDone
    /\ call.resp = [status |-> 404, xRobotsTag |-> <<"a","l","l",","," ","N","O","I","M","A","G","E","A","I">>]
    /\ call.result = "AccessDenied"



RenderDone == call.fn = "renderFromJSON" /\ call.done

\* path begins with the documentation root.
beginsWithDocumentationRoot(path) == startsWith(path, <<"/","d","o","c","u","m","e","n","t","a","t","i","o","n","/">>)

\* The markdown of a link to target, from the end of its text.
linkTo(target) == <<"]", "(">> \o target \o <<")">>

\* C23: the link the renderer emits for a resolved path that begins with the
\* documentation root - in an inline reference, a topic, relationship or
\* see-also section, the index or the breadcrumbs - has the target
\* /external/<externalOrigin><path> when an external origin is given, and the
\* path itself when none is.
C23_LinksRewritten ==
    (RenderDone /\ call.family = "link") =>
        /\ call.result.ok
        /\ \A path \in call.resolved :
               beginsWithDocumentationRoot(path) =>
                   IF call.externalOrigin # <<>>
                   THEN /\ includes(call.result.markdown,
                                    linkTo(<<"/","e","x","t","e","r","n","a","l","/">> \o call.externalOrigin[1] \o path))
                        /\ ~includes(call.result.markdown, linkTo(path))
                   ELSE includes(call.result.markdown, linkTo(path))

C23_Witness ==
    /\ RenderDone
    /\ call.family = "link"
    /\ call.walk = "inline"
    /\ call.via # <<>>
    /\ call.externalOrigin = <<<<"h","t","t","p","s",":","/","/","b",".","c","o","/","p">>>>
    /\ \E path \in call.resolved :
           /\ beginsWithDocumentationRoot(path)
           /\ includes(call.result.markdown,
                       linkTo(<<"/","e","x","t","e","r","n","a","l","/","h","t","t","p","s",":","/","/","b",".","c","o","/","p">> \o path))


\* How many calls of its own walk enclose the activation at position k of the
\* stack: its level of nesting.
nestingLevel(k) ==
    Cardinality({j \in 1..k : call.stack[j].walk = call.stack[k].walk}) - 1

\* The cap the walks are said to have.
statedCap(walk) == IF walk = "inline" THEN 20 ELSE 50

\* C24: no recursive walk of the renderer - block content, inline content,
\* table cells, index children - descends past its cap (content 50, inline
\* 20): no running call of a walk is nested deeper than the cap in calls of
\* the same walk.
C24_WalksCapped ==
    call.fn = "renderFromJSON" =>
        \A k \in 1..Len(call.stack) :
            call.stack[k].walk # "document" =>
                nestingLevel(k) <= statedCap(call.stack[k].walk)

\* C25: renderFromJSON does not raise, whatever is missing, empty or of an
\* unknown kind in the document, and what it returns ends with the footer.
C25_NeverRaises ==
    RenderDone =>
        /\ call.result.ok
        /\ endsWith(call.result.markdown, Footer)

\* C30: the inline placeholder appears only where inline content is nested
\* through more than 20 emphases, and a paragraph of plain text is rendered
\* in full under every nesting of lists up to the content cap of 50.
C30_InlineCapCountsInlineOnly ==
    (RenderDone /\ call.family = "nesting" /\ call.result.ok) =>
        /\ includes(call.result.markdown, <<"[","I","n","l","i","n","e"," ","c","o","n","t","e","n","t"," ","t","o","o"," ","d","e","e","p","l","y"," ","n","e","s","t","e","d","]">>)
               => (call.walk = "inline" /\ call.nesting > 20)
        /\ (call.walk = "block" /\ call.nesting <= 50)
               => includes(call.result.markdown, LeafText)


\* An assertHostPolicy call on a URL that has returned.
HostPolicyOfUrlDone == call.fn = "assertHostPolicyOfUrl" /\ call.done

\* The host policy took the host of the call to be on the list of the call.
tookAsListed ==
    IF call.side = "block" THEN call.result = "HostBlocked"
    ELSE call.result # "HostNotAllowlisted"

\* The match as stated, on a host and a pattern in lower case.
statedMatch(h, p) ==
    IF Head(p) = "." THEN endsWith(h, p)
    ELSE h = p \/ endsWith(h, <<".">> \o p)

\* Host names that begin like a private IPv6 address.
hexLikeName(host) ==
    \E pre \in {<<"f","c">>, <<"f","d">>, <<"f","e","8">>, <<"f","e","9">>, <<"f","e","a">>, <<"f","e","b">>} : startsWith(toLowerCase(host), pre)

\* C26: a bare pattern matches a host exactly when the host is the pattern or
\* ends with "." and the pattern; a dot-prefixed pattern matches exactly when
\* the host ends with it; upper and lower case are the same on both sides.
C26_LabelBoundaryMatch ==
    (HostPolicyOfUrlDone /\ call.pattern # <<>>) =>
        (tookAsListed <=> statedMatch(toLowerCase(call.host),
                                      toLowerCase(trim(call.pattern))))

C26_Witness ==
    /\ HostPolicyOfUrlDone
    /\ call.host = <<"A",".","B",".","C","O">>
    /\ call.pattern = <<"b",".","c","o">>
    /\ call.side = "block"
    /\ call.result = "HostBlocked"


\* A DNS name that is not an IP literal, not localhost and not under .local.
publicDnsName(host) ==
    /\ host # <<>>
    /\ Head(host) # "["
    /\ \E i \in 1..Len(host) : host[i] \notin Digits \cup {"."}
    /\ toLowerCase(host) # <<"l","o","c","a","l","h","o","s","t">>
    /\ ~endsWith(toLowerCase(host), <<".","l","o","c","a","l">>)

\* C28: with empty allow and block lists the host policy allows every public
\* DNS name, whatever letters its first label begins with.
C28_PublicNamesAllowed ==
    (HostPolicyOfUrlDone /\ call.pattern = <<>> /\ publicDnsName(call.host)) =>
        call.result = "allowed"

\* The names that do not begin like a private IPv6 address are allowed.
C28_OtherNamesAllowed ==
    (HostPolicyOfUrlDone /\ call.pattern = <<>> /\ publicDnsName(call.host)
        /\ ~hexLikeName(call.host)) =>
        call.result = "allowed"


\* The outcomes of a request that the host policy rejected.
HostPolicyRejections == {"HostBlocked", "HostNotAllowlisted", "PrivateHostBlocked"}

\* C27: a request of the /external route whose access gate allowed the target
\* under the operator's host lists is not rejected by the later evaluation of
\* the host policy in the same request (stage 2, inside fetchExternalDocCJSON):
\* it goes on to the fetch of the JSON data endpoint.
C27_RouteKeepsOperatorConfig ==
    \A p \in Procs :
        (procs[p].kind = "route" /\ procs[p].stage = 2) =>
            procs[p].gate \notin HostPolicyRejections

\* The second evaluation rejects nothing but the private host that the
\* operator's allowlist names.
C27_OnlyAllowlistedPrivateHost ==
    \A p \in Procs :
        (procs[p].kind = "route" /\ procs[p].stage = 2
            /\ procs[p].gate \in HostPolicyRejections) =>
            /\ procs[p].target = 4
            /\ procs[p].gate = "PrivateHostBlocked"
            /\ procs[p].outcome = "PrivateHostBlocked"
            /\ \A k \in 1..Len(procs[p].calls) : procs[p].calls[k].type # "json"


\* Resolution r goes from state a to state b in this step.
Moves(r, a, b) ==
    /\ r \in resolutions
    /\ r.state = a
    /\ \E r2 \in resolutions' : r2.id = r.id /\ r2.state = b

\* Request p, awaiting a resolution whose fetch failed, resumes in this step.
ResumesFromFailure(p) ==
    /\ procs[p].pc = "awaitRobots"
    /\ procs[p].wait # 0
    /\ resolutionOf(procs[p].wait).state = "failed"
    /\ procs'[p].pc # "awaitRobots"

\* A caller has seen the robots.txt fetch of origin o fail.
failureSeen(o) ==
    \E q \in Procs : procs[q].gate = "FetchFailure" /\ targetOrigin(procs[q]) = o

====
